---- MODULE Spec2Model ----
(***************************************************************************)
(* RTCP reception core (RTCPReceiver): compound-packet parsing, the        *)
(* session store, the report timeouts, and the two critical sections.      *)
(*                                                                         *)
(* The receiver object is the record  rcv  (fields named as in             *)
(* rtcp_receiver.h, without the leading underscore).  The ingestion thread *)
(* "net" runs IncomingPacket step by step: one step per blocking point     *)
(* (CritScope), per RTCP block handled under the session lock, and per     *)
(* callback issued while a lock is held.  Every other public operation     *)
(* holds one critical section for its whole body: a query or timer thread  *)
(* enters it in one step and runs the body in the next.  Both critical     *)
(* sections are recursive.                                                 *)
(*                                                                         *)
(* The clock is the environment's: it is positive (0 is the code's "never" *)
(* sentinel for every time checkpoint) and only moves forward.             *)
(***************************************************************************)
EXTENDS Integers, Sequences, FiniteSets, TLC

VARIABLES
    rcv,             \* the session store: the fields guarded by _criticalSectionRTCPReceiver
    stats_callback,  \* stats_callback_, guarded by _criticalSectionFeedbacks (0 = NULL)
    cfg,             \* constructor arguments: receiver_only and which observers are non-null
    now,             \* _clock->TimeInMilliseconds()
    lock,            \* the two critical sections: the thread inside each ("none" = free)
    net,             \* the ingestion thread: position in IncomingPacket and packet_information
    ev,              \* the last step: thread, operation, result, callbacks issued (with locks held)
    hist,            \* history: what the timers and the sender info have seen so far
    call             \* the operation each non-ingestion thread is inside ("none" = outside)

vars == <<rcv, stats_callback, cfg, now, lock, net, ev, hist, call>>

(***************************************************************************)
(* Bounds of the model.                                                    *)
(***************************************************************************)
NumSsrc == 2        \* SSRCs 1..NumSsrc appear on the wire and in the setters
MaxTime == 6        \* the clock runs from 1 to MaxTime
MaxBlocks == 3      \* RTCP blocks per compound datagram
MaxSeq == 1         \* extended_high_seq_num values 0..MaxSeq on the wire
MaxInterval == 1    \* rtcp_interval_ms arguments 1..MaxInterval
MaxReenter == 1     \* calls an observer makes into the receiver from one callback
MaxChunks == 1      \* chunks per SDES block
MaxReportBlocks == 1 \* report blocks per SR / RR
MaxSkipped == 2     \* num_skipped_packets_ is followed up to this value
MaxRttMs == 2       \* round-trip times 0..MaxRttMs ms arrive in Receiver Reports
MaxSamples == 3     \* RTT samples one report-block information takes from them
MaxAvgRttMs == 6    \* round-trip times 1..MaxAvgRttMs ms enter the running average
MaxAvgSamples == 7  \* length of the sample sequences that are averaged
MaxSilences == 2    \* the clock is moved forward by five audio report intervals this often
MaxTmmbn == 2       \* bounding-set items one receive information comes to hold
MaxNackRequests == 3 \* NACK requests counted before the last datagram is fed
MaxFir == 2         \* key frame requests counted in fir_packets
NumCallbacks == 2   \* RtcpStatisticsCallback objects 1..NumCallbacks; 0 is the null pointer
MaxPli == 2         \* picture loss indications counted in pli_packets
RTCP_CNAME_SIZE == 3 \* size of a CNAME buffer (scaled down; set by the environment)

Ssrcs == 1..NumSsrc

(***************************************************************************)
(* Program constants.                                                      *)
(***************************************************************************)
kRrTimeoutIntervals == 3
kMaxWarningLogIntervalMs == 10000
RTCP_INTERVAL_AUDIO_MS == 5000
RTCP_MIN_FRAME_LENGTH_MS == 2 \* least time between two key frame requests (scaled down; set by the environment)

(***************************************************************************)
(* Clock (external collaborator): the NTP time that goes with  now.        *)
(***************************************************************************)
\* fractions are kept in units of 1/65536 s (the 16 bits that enter compact NTP).
NtpEpochSecs == 100

ClockCurrentNtp ==
    [seconds |-> NtpEpochSecs + (now \div 1000),
     fractions |-> ((now % 1000) * 65536) \div 1000]

(***************************************************************************)
(* Freshly constructed helper objects (rtcp_receiver_help).                *)
(***************************************************************************)
NewReportBlockInformation ==
    [remoteReceiveBlock |->
        [remoteSSRC |-> 0, sourceSSRC |-> 0, fractionLost |-> 0,
         cumulativeLost |-> 0, extendedHighSeqNum |-> 0, jitter |-> 0,
         delaySinceLastSR |-> 0, lastSR |-> 0],
     remoteMaxJitter |-> 0, RTT |-> 0, minRTT |-> 0, maxRTT |-> 0,
     avgRTT |-> 0, numAverageCalcs |-> 0]

NewReceiveInformation ==
    [last_time_received_ms |-> 0, ready_for_delete |-> FALSE,
     tmmbr |-> <<>>, tmmbn |-> <<>>,
     last_fir_sequence_number |-> -1, last_fir_request_ms |-> 0]

ZeroSenderInfo ==
    [NTPseconds |-> 0, NTPfraction |-> 0, RTPtimeStamp |-> 0,
     sendPacketCount |-> 0, sendOctetCount |-> 0]

NewPacketInformation ==
    [rtcpPacketTypeFlags |-> {}, remoteSSRC |-> 0, report_blocks |-> <<>>,
     rtt |-> 0, ntp_secs |-> 0, ntp_frac |-> 0, rtp_timestamp |-> 0,
     xr_originator_ssrc |-> 0, xr_dlrr_item |-> FALSE,
     nackSequenceNumbers |-> <<>>, sliPictureId |-> 0, rpsiPictureId |-> 0,
     receiverEstimatedMaxBitrate |-> 0, transport_feedback |-> -1]

(***************************************************************************)
(* The receiver after construction (lines 62-93).                          *)
(***************************************************************************)
NewReceiver ==
    [main_ssrc |-> 0,
     remoteSSRC |-> 0,
     registered_ssrcs |-> {},
     remoteSenderInfo |-> ZeroSenderInfo,
     lastReceivedSRNTPsecs |-> 0,
     lastReceivedSRNTPfrac |-> 0,
     remoteXRReceiveTimeInfo |-> [sourceSSRC |-> 0, lastRR |-> 0],
     lastReceivedXRNTPsecs |-> 0,
     lastReceivedXRNTPfrac |-> 0,
     xr_rrtr_status |-> FALSE,
     xr_rr_rtt_ms |-> 0,
     receivedReportBlockMap |-> <<>>,
     receivedInfoMap |-> <<>>,
     receivedCnameMap |-> <<>>,
     lastReceivedRrMs |-> 0,
     lastIncreasedSequenceNumberMs |-> 0,
     first_packet_time_ms |-> -1,
     nack_packets |-> 0,
     nack_requests |-> 0,
     unique_nack_requests |-> 0,
     fir_packets |-> 0,
     pli_packets |-> 0,
     nack_stats |-> [requests |-> 0, unique |-> {}],
     num_skipped_packets |-> 0,
     last_skipped_packets_warning |-> now]

(***************************************************************************)
(* Maps.  A std::map is a function on the keys present.  The nested        *)
(* report-block map (source SSRC -> remote SSRC -> info) is kept on the    *)
(* pairs <<source, remote>> that hold an info object.                      *)
(***************************************************************************)
Has(m, k) == k \in DOMAIN m

Put(m, k, v) == (k :> v) @@ m

Erase(m, k) == [x \in DOMAIN m \ {k} |-> m[x]]

Min(a, b) == IF a <= b THEN a ELSE b

\* RTCPReceiver::CreateReceiveInformation: find, else insert a fresh object.
CreateReceiveInformation(m, remoteSSRC) ==
    IF Has(m, remoteSSRC) THEN m ELSE Put(m, remoteSSRC, NewReceiveInformation)

\* RTCPReceiver::CreateCnameInformation: find, else insert a zeroed buffer.
CreateCnameInformation(m, remoteSSRC) ==
    IF Has(m, remoteSSRC) THEN m
    ELSE Put(m, remoteSSRC, [i \in 1..RTCP_CNAME_SIZE |-> 0])

\* RTCPReceiver::GetReportBlockInformation: TRUE when an info object exists.
GetReportBlockInformation(m, remote_ssrc, source_ssrc) ==
    Has(m, <<source_ssrc, remote_ssrc>>)

\* RTCPReceiver::CreateOrGetReportBlockInformation
CreateOrGetReportBlockInformation(m, remote_ssrc, source_ssrc) ==
    IF GetReportBlockInformation(m, remote_ssrc, source_ssrc) THEN m
    ELSE Put(m, <<source_ssrc, remote_ssrc>>, NewReportBlockInformation)

(***************************************************************************)
(* NTP helpers (time_util): 32-bit compact NTP and its conversion to ms.   *)
(***************************************************************************)
\* uint32_t arithmetic wraps; the word is narrowed to 24 bits so that every
\* intermediate value stays inside TLC's integers.
CompactNtpModulus == 2^24

CompactNtp(ntp) == (ntp.seconds * 65536 + ntp.fractions) % CompactNtpModulus

\* (x * 1000 + 0x8000) >> 16, the whole seconds of x converted apart from
\* the fraction so that the product stays inside TLC's integers
CompactNtpRttToMs(x) ==
    (x \div 65536) * 1000 + ((x % 65536) * 1000 + 32768) \div 65536

\* Variant: the name is copied over the whole buffer.
StoreCnameUnterminated(cname) ==
    [i \in 1..RTCP_CNAME_SIZE |-> IF i <= Len(cname) THEN cname[i] ELSE 0]

\* strncpy(name, cname, RTCP_CNAME_SIZE - 1) after name[RTCP_CNAME_SIZE - 1] = 0
StoreCname(cname) ==
    [i \in 1..RTCP_CNAME_SIZE |->
        IF i < RTCP_CNAME_SIZE /\ i <= Len(cname) THEN cname[i] ELSE 0]

\* strncpy(dst, src, n): the bytes of src before its first null, then nulls
Strncpy(src, n) ==
    [i \in 1..n |->
        IF \A j \in 1..i : j <= Len(src) /\ src[j] # 0 THEN src[i] ELSE 0]

\* lines 1206-1207: cName[RTCP_CNAME_SIZE - 1] = 0, then the stored name is
\* copied over the bytes before it
CopyCname(name) == Strncpy(name, RTCP_CNAME_SIZE - 1) \o <<0>>

(***************************************************************************)
(* Block handlers.  Each takes and returns  c = [rcv, pi] : the session    *)
(* store and the packet_information accumulator of the datagram.           *)
(***************************************************************************)
Skip(c) == [c EXCEPT !.rcv.num_skipped_packets = @ + 1]

AddFlag(c, f) == [c EXCEPT !.pi.rtcpPacketTypeFlags = @ \cup {f}]

\* Variant: only a report block that has yielded a round-trip time is listed.
AddReportInfoWithRtt(pi, info) ==
    IF info.numAverageCalcs = 0 THEN pi
    ELSE [pi EXCEPT !.rtt = info.RTT,
                    !.report_blocks = Append(@, info.remoteReceiveBlock)]

\* RTCPPacketInformation::AddReportInfo
AddReportInfo(pi, info) ==
    [pi EXCEPT !.rtt = info.RTT,
               !.report_blocks = Append(@, info.remoteReceiveBlock)]

(***************************************************************************)
(* Single-precision arithmetic of the running average (lines 563-566).     *)
(* A non-negative float is  [m, e] : the value m / 2^e, with a mantissa of *)
(* 24 bits (2^23 <= m < 2^24) or m = 0.  Every operation rounds its exact  *)
(* result to the nearest float, ties to the even mantissa.                 *)
(***************************************************************************)
RECURSIVE BitLen(_)
BitLen(n) == IF n = 0 THEN 0 ELSE 1 + BitLen(n \div 2)

\* n / 2^k rounded to the nearest integer, ties to even
RoundShift(n, k) ==
    LET q == n \div 2^k
        r == n % 2^k
    IN  IF 2 * r > 2^k \/ (2 * r = 2^k /\ q % 2 = 1) THEN q + 1 ELSE q

\* the float nearest to m / 2^e
FloatRound(m, e) ==
    LET len == BitLen(m)
        rounded == IF len > 24 THEN RoundShift(m, len - 24) ELSE m
    IN  IF m = 0 THEN [m |-> 0, e |-> 0]
        ELSE IF len <= 24 THEN [m |-> m * 2^(24 - len), e |-> e + (24 - len)]
        ELSE IF rounded = 2^24 THEN [m |-> 2^23, e |-> e - (len - 24) - 1]
        ELSE [m |-> rounded, e |-> e - (len - 24)]

\* the least k with a * 2^k >= 2^23 * b, and a * 2^k
RECURSIVE FloatScale(_, _, _)
FloatScale(n, b, k) ==
    IF n >= 2^23 * b THEN [n |-> n, k |-> k] ELSE FloatScale(2 * n, b, k + 1)

\* float(a) / float(b) for integers 0 < a <= b
FloatDiv(a, b) ==
    LET s == FloatScale(a, b, 0)
        q == s.n \div b
        r == s.n % b
        m == IF 2 * r > b \/ (2 * r = b /\ q % 2 = 1) THEN q + 1 ELSE q
    IN  FloatRound(m, s.k)

\* x * float(n) for an integer n >= 0
FloatMul(x, n) == FloatRound(x.m * n, x.e)

\* x + y: the smaller operand is aligned to three bits below the larger
\* one's mantissa, the bits shifted out kept as a sticky bit
FloatAdd(x, y) ==
    IF x.m = 0 THEN y
    ELSE IF y.m = 0 THEN x
    ELSE
    LET xbig == x.e < y.e \/ (x.e = y.e /\ x.m >= y.m)
        big == IF xbig THEN x ELSE y
        small == IF xbig THEN y ELSE x
        d == small.e - big.e
        shifted == IF d > 27 THEN 0 ELSE (small.m * 8) \div 2^d
        sticky == d > 27 \/ (small.m * 8) % 2^d # 0
        aligned == IF sticky /\ shifted % 2 = 0 THEN shifted + 1 ELSE shifted
    IN  FloatRound(big.m * 8 + aligned, big.e + 3)

\* static_cast<int64_t>(x)
FloatToInt(x) == IF x.e > 30 THEN 0 ELSE x.m \div 2^x.e

\* lines 563-566
NewAverage(avgRTT, numAverageCalcs, rtt) ==
    LET ac == numAverageCalcs
        newAverage == FloatAdd(FloatMul(FloatDiv(ac, ac + 1), avgRTT),
                               FloatMul(FloatDiv(1, ac + 1), rtt))
    IN  FloatToInt(FloatAdd(newAverage, FloatRound(1, 1)))

\* Variant: the difference is taken in signed arithmetic.
RttSampleSigned(rb) ==
    LET receive_time == CompactNtp(ClockCurrentNtp)
        rtt_ntp == receive_time - rb.delay_since_last_sr - rb.last_sr
    IN  CompactNtpRttToMs(rtt_ntp)

\* lines 539-546: the round-trip time a report block yields
RttSample(rb) ==
    LET receive_time == CompactNtp(ClockCurrentNtp)
        rtt_ntp == (receive_time - rb.delay_since_last_sr - rb.last_sr)
                       % CompactNtpModulus
    IN  CompactNtpRttToMs(rtt_ntp)

\* Variant: a receive-only endpoint computes round-trip times too.
ComputesRttWhenReceiverOnly(rb) == rb.last_sr # 0

\* line 538
ComputesRtt(rb) == ~cfg.receiver_only /\ rb.last_sr # 0

\* The RTT part of HandleReportBlock (lines 538-572), on one info object.
UpdateRtt(info, rb) ==
    LET rtt == RttSample(rb)
        ac == info.numAverageCalcs
    IN  [info EXCEPT
            !.maxRTT = IF rtt > @ THEN rtt ELSE @,
            !.minRTT = IF @ = 0 THEN rtt ELSE IF rtt < @ THEN rtt ELSE @,
            !.RTT = rtt,
            !.avgRTT = IF ac # 0 THEN NewAverage(@, ac, rtt) ELSE rtt,
            !.numAverageCalcs = ac + 1]

\* Variant: a repeated sequence number counts as progress.
SeqNumNotDecreased(rb, info) ==
    rb.extended_high_seq_num >= info.remoteReceiveBlock.extendedHighSeqNum

\* The test of lines 516-517.
SeqNumIncreased(rb, info) ==
    rb.extended_high_seq_num > info.remoteReceiveBlock.extendedHighSeqNum

\* Variant: a report block about any source is taken.
ForAnyone(r, rb) == TRUE

\* lines 498-499: "Filter out all report blocks that are not for us."
ForUs(r, rb) == rb.source_ssrc \in r.registered_ssrcs

HandleReportBlock(c, rb, remoteSSRC) ==
    IF ~ForUs(c.rcv, rb) THEN c
    ELSE
    LET key == <<rb.source_ssrc, remoteSSRC>>
        m == CreateOrGetReportBlockInformation(
                 c.rcv.receivedReportBlockMap, remoteSSRC, rb.source_ssrc)
        old == m[key]
        copied == [old EXCEPT
            !.remoteReceiveBlock =
                [remoteSSRC |-> remoteSSRC,
                 sourceSSRC |-> rb.source_ssrc,
                 fractionLost |-> rb.fraction_lost,
                 cumulativeLost |-> rb.cumulative_lost,
                 extendedHighSeqNum |-> rb.extended_high_seq_num,
                 jitter |-> rb.jitter,
                 delaySinceLastSR |-> rb.delay_since_last_sr,
                 lastSR |-> rb.last_sr],
            !.remoteMaxJitter = IF rb.jitter > @ THEN rb.jitter ELSE @]
        info == IF ComputesRtt(rb) THEN UpdateRtt(copied, rb) ELSE copied
    IN  [rcv |-> [c.rcv EXCEPT
                    !.lastReceivedRrMs = now,
                    !.lastIncreasedSequenceNumberMs =
                        IF SeqNumIncreased(rb, old) THEN now ELSE @,
                    !.receivedReportBlockMap = Put(m, key, info)],
         pi |-> AddReportInfo(c.pi, info)]

RECURSIVE HandleReportBlocks(_, _, _)
HandleReportBlocks(c, rbs, remoteSSRC) ==
    IF rbs = <<>> THEN c
    ELSE HandleReportBlocks(HandleReportBlock(c, Head(rbs), remoteSSRC),
                            Tail(rbs), remoteSSRC)

\* Variant: the sender info of a Sender Report is stored when it comes from
\* another party than the remote one.
OtherSenderReportAccepted(r, remoteSSRC) == r.remoteSSRC # remoteSSRC

\* Variant: the sender info of any party's Sender Report is stored.
AnySenderReportAccepted(r, remoteSSRC) == TRUE

\* The test of line 428: the SR comes from the party whose report is stored.
SenderReportAccepted(r, remoteSSRC) == r.remoteSSRC = remoteSSRC

HandleSenderReport(c, blk) ==
    IF ~blk.ok THEN Skip(c)
    ELSE
    LET remoteSSRC == blk.ssrc
        c1 == [c EXCEPT
                 !.pi.remoteSSRC = remoteSSRC,
                 !.rcv.receivedInfoMap = CreateReceiveInformation(@, remoteSSRC)]
        c2 == IF SenderReportAccepted(c1.rcv, remoteSSRC)
              THEN [c1 EXCEPT
                      !.pi.rtcpPacketTypeFlags = @ \cup {"kRtcpSr"},
                      !.pi.ntp_secs = blk.sr.ntp_secs,
                      !.pi.ntp_frac = blk.sr.ntp_frac,
                      !.pi.rtp_timestamp = blk.sr.rtp_timestamp,
                      !.rcv.remoteSenderInfo =
                          [NTPseconds |-> blk.sr.ntp_secs,
                           NTPfraction |-> blk.sr.ntp_frac,
                           RTPtimeStamp |-> blk.sr.rtp_timestamp,
                           sendPacketCount |-> blk.sr.packet_count,
                           sendOctetCount |-> blk.sr.octet_count],
                      !.rcv.lastReceivedSRNTPsecs = ClockCurrentNtp.seconds,
                      !.rcv.lastReceivedSRNTPfrac = ClockCurrentNtp.fractions]
              ELSE AddFlag(c1, "kRtcpRr")
        c3 == [c2 EXCEPT
                 !.rcv.receivedInfoMap[remoteSSRC].last_time_received_ms = now]
    IN  HandleReportBlocks(c3, blk.rbs, remoteSSRC)

HandleReceiverReport(c, blk) ==
    IF ~blk.ok THEN Skip(c)
    ELSE
    LET remoteSSRC == blk.ssrc
        c1 == [c EXCEPT
                 !.pi.remoteSSRC = remoteSSRC,
                 !.rcv.receivedInfoMap = CreateReceiveInformation(@, remoteSSRC),
                 !.pi.rtcpPacketTypeFlags = @ \cup {"kRtcpRr"}]
        c3 == [c1 EXCEPT
                 !.rcv.receivedInfoMap[remoteSSRC].last_time_received_ms = now]
    IN  HandleReportBlocks(c3, blk.rbs, remoteSSRC)

\* Variant: a BYE leaves the CNAME slot of its sender in place.
HandleBYEKeepsCname(c, blk) ==
    IF ~blk.ok THEN Skip(c)
    ELSE
    LET s == blk.ssrc
        rbm == c.rcv.receivedReportBlockMap
    IN  [c EXCEPT
           !.rcv.receivedReportBlockMap =
               [k \in {x \in DOMAIN rbm : x[2] # s} |-> rbm[k]],
           !.rcv.receivedInfoMap =
               IF Has(@, s) THEN [@ EXCEPT ![s].ready_for_delete = TRUE] ELSE @,
           !.rcv.xr_rr_rtt_ms = 0]

\* Variant: a BYE leaves the XR round-trip time alone.
HandleBYEKeepsXrRtt(c, blk) ==
    IF ~blk.ok THEN Skip(c)
    ELSE
    LET s == blk.ssrc
        rbm == c.rcv.receivedReportBlockMap
    IN  [c EXCEPT
           !.rcv.receivedReportBlockMap =
               [k \in {x \in DOMAIN rbm : x[2] # s} |-> rbm[k]],
           !.rcv.receivedInfoMap =
               IF Has(@, s) THEN [@ EXCEPT ![s].ready_for_delete = TRUE] ELSE @,
           !.rcv.receivedCnameMap = IF Has(@, s) THEN Erase(@, s) ELSE @]

\* lines 798-831
HandleBYE(c, blk) ==
    IF ~blk.ok THEN Skip(c)
    ELSE
    LET s == blk.ssrc
        rbm == c.rcv.receivedReportBlockMap
    IN  [c EXCEPT
           !.rcv.receivedReportBlockMap =
               [k \in {x \in DOMAIN rbm : x[2] # s} |-> rbm[k]],
           !.rcv.receivedInfoMap =
               IF Has(@, s) THEN [@ EXCEPT ![s].ready_for_delete = TRUE] ELSE @,
           !.rcv.receivedCnameMap = IF Has(@, s) THEN Erase(@, s) ELSE @,
           !.rcv.xr_rr_rtt_ms = 0]

\* lines 851-862
HandleXrReceiveReferenceTime(c, rrtr) ==
    AddFlag([c EXCEPT
               !.rcv.remoteXRReceiveTimeInfo =
                   [sourceSSRC |-> c.pi.xr_originator_ssrc,
                    lastRR |-> CompactNtp(rrtr.ntp)],
               !.rcv.lastReceivedXRNTPsecs = ClockCurrentNtp.seconds,
               !.rcv.lastReceivedXRNTPfrac = ClockCurrentNtp.fractions],
            "kRtcpXrReceiverReferenceTime")

\* Variant: the round-trip time is computed whether or not the caller enabled it.
HandleXrDlrrReportBlockUnasked(c, rti) ==
    IF rti.ssrc \notin c.rcv.registered_ssrcs THEN c
    ELSE
    LET c1 == [c EXCEPT !.pi.xr_dlrr_item = TRUE]
        rtt_ntp == (CompactNtp(ClockCurrentNtp) - rti.delay_since_last_rr
                       - rti.last_rr) % CompactNtpModulus
    IN  IF rti.last_rr = 0 THEN c1
        ELSE AddFlag([c1 EXCEPT !.rcv.xr_rr_rtt_ms = CompactNtpRttToMs(rtt_ntp)],
                     "kRtcpXrDlrrReportBlock")

\* lines 864-890: the result is stored whatever its value
HandleXrDlrrReportBlock(c, rti) ==
    IF rti.ssrc \notin c.rcv.registered_ssrcs THEN c
    ELSE
    LET c1 == [c EXCEPT !.pi.xr_dlrr_item = TRUE]
        rtt_ntp == (CompactNtp(ClockCurrentNtp) - rti.delay_since_last_rr
                       - rti.last_rr) % CompactNtpModulus
    IN  IF ~c.rcv.xr_rrtr_status THEN c1
        ELSE IF rti.last_rr = 0 THEN c1
        ELSE AddFlag([c1 EXCEPT !.rcv.xr_rr_rtt_ms = CompactNtpRttToMs(rtt_ntp)],
                     "kRtcpXrDlrrReportBlock")

RECURSIVE HandleRrtrs(_, _)
HandleRrtrs(c, rrtrs) ==
    IF rrtrs = <<>> THEN c
    ELSE HandleRrtrs(HandleXrReceiveReferenceTime(c, Head(rrtrs)), Tail(rrtrs))

RECURSIVE HandleDlrrs(_, _)
HandleDlrrs(c, dlrrs) ==
    IF dlrrs = <<>> THEN c
    ELSE HandleDlrrs(HandleXrDlrrReportBlock(c, Head(dlrrs)), Tail(dlrrs))

\* lines 833-849; dlrrs holds the sub-blocks of all DLRR blocks in order
HandleXr(c, blk) ==
    IF ~blk.ok THEN Skip(c)
    ELSE HandleDlrrs(
             HandleRrtrs([c EXCEPT !.pi.xr_originator_ssrc = blk.ssrc], blk.rrtrs),
             blk.dlrrs)

\* HandleSDES, one chunk (lines 761-765): the slot of chunk.ssrc is created and
\* overwritten.
StoreChunk(r, chunk) ==
    [r EXCEPT !.receivedCnameMap =
        Put(CreateCnameInformation(@, chunk.ssrc), chunk.ssrc,
            StoreCname(chunk.cname))]

\* RTCPReceiveInformation::InsertTmmbrItem
InsertTmmbrItem(info, sender_ssrc, item, current_time_ms) ==
    [info EXCEPT !.tmmbr =
        Put(@, sender_ssrc, [tmmbr_item |-> [ssrc |-> sender_ssrc,
                                             bitrate_bps |-> item.bitrate_bps],
                             last_updated_ms |-> current_time_ms])]

RECURSIVE InsertRequests(_, _, _, _)
InsertRequests(c, sender, requester, requests) ==
    IF requests = <<>> THEN c
    ELSE LET request == Head(requests)
             c1 == IF c.rcv.main_ssrc = request.ssrc /\ request.bitrate_bps # 0
                   THEN AddFlag(
                          [c EXCEPT !.rcv.receivedInfoMap[sender] =
                              InsertTmmbrItem(@, requester, request, now)],
                          "kRtcpTmmbr")
                   ELSE c
         IN  InsertRequests(c1, sender, requester, Tail(requests))

\* Variant: a TMMBR block makes its sender known.
HandleTMMBRCreates(c, blk) ==
    IF ~blk.ok THEN Skip(c)
    ELSE InsertRequests([c EXCEPT !.rcv.receivedInfoMap =
                            CreateReceiveInformation(@, blk.ssrc)],
                        blk.ssrc,
                        IF blk.media_ssrc # 0 THEN blk.media_ssrc ELSE blk.ssrc,
                        blk.items)

\* lines 909-935
HandleTMMBR(c, blk) ==
    IF ~blk.ok THEN Skip(c)
    ELSE IF ~Has(c.rcv.receivedInfoMap, blk.ssrc) THEN c
    ELSE InsertRequests(c, blk.ssrc,
                        IF blk.media_ssrc # 0 THEN blk.media_ssrc ELSE blk.ssrc,
                        blk.items)

HandleTMMBN(c, blk) ==
    IF ~blk.ok THEN Skip(c)
    ELSE IF ~Has(c.rcv.receivedInfoMap, blk.ssrc) THEN c
    ELSE AddFlag([c EXCEPT !.rcv.receivedInfoMap[blk.ssrc].tmmbn = @ \o blk.items],
                 "kRtcpTmmbn")

\* NackStats::ReportRequest for each packet id: every request is counted, and
\* every sequence number once.
RECURSIVE ReportRequests(_, _)
ReportRequests(stats, packet_ids) ==
    IF packet_ids = <<>> THEN stats
    ELSE ReportRequests([requests |-> stats.requests + 1,
                         unique |-> stats.unique \cup {Head(packet_ids)}],
                        Tail(packet_ids))

\* Variant: a NACK about our media stream is taken in receiver-only mode too.
NackNotToUsBySsrc(r, blk) == r.main_ssrc # blk.media_ssrc

\* line 783: "Not to us."
NackNotToUs(r, blk) == cfg.receiver_only \/ r.main_ssrc # blk.media_ssrc

\* Variant: a packet id asked for again is not counted again.
HandleNACKCountsUnique(c, blk) ==
    IF ~blk.ok THEN Skip(c)
    ELSE IF cfg.receiver_only \/ c.rcv.main_ssrc # blk.media_ssrc THEN c
    ELSE LET stats == ReportRequests(c.rcv.nack_stats, blk.items)
             reported == [c EXCEPT !.pi.nackSequenceNumbers = blk.items,
                                   !.rcv.nack_stats = stats]
         IN  IF blk.items = <<>> THEN reported
             ELSE AddFlag([reported EXCEPT
                              !.rcv.nack_packets = @ + 1,
                              !.rcv.nack_requests = Cardinality(stats.unique),
                              !.rcv.unique_nack_requests = Cardinality(stats.unique)],
                          "kRtcpNack")

\* lines 775-796
HandleNACK(c, blk) ==
    IF ~blk.ok THEN Skip(c)
    ELSE IF NackNotToUs(c.rcv, blk) THEN c
    ELSE LET stats == ReportRequests(c.rcv.nack_stats, blk.items)
             reported == [c EXCEPT !.pi.nackSequenceNumbers = blk.items,
                                   !.rcv.nack_stats = stats]
         IN  IF blk.items = <<>> THEN reported
             ELSE AddFlag([reported EXCEPT
                              !.rcv.nack_packets = @ + 1,
                              !.rcv.nack_requests = stats.requests,
                              !.rcv.unique_nack_requests = Cardinality(stats.unique)],
                          "kRtcpNack")

\* Variant: a request is honoured as soon as RTCP_MIN_FRAME_LENGTH_MS have passed.
FirSpacedInclusive(info) == now - info.last_fir_request_ms >= RTCP_MIN_FRAME_LENGTH_MS

\* lines 1034-1035: "sanity; don't go crazy with the callbacks"
FirSpaced(info) == now - info.last_fir_request_ms > RTCP_MIN_FRAME_LENGTH_MS

\* lines 1021-1045: one request of a FIR block sent by sender
HandleFirRequest(c, sender, fir_request) ==
    IF c.rcv.main_ssrc # fir_request.ssrc THEN c
    ELSE LET counted == [c EXCEPT !.rcv.fir_packets = @ + 1]
         IN  IF Has(c.rcv.receivedInfoMap, sender)
             THEN LET info == c.rcv.receivedInfoMap[sender]
                  IN  IF fir_request.seq_nr # info.last_fir_sequence_number
                         /\ FirSpaced(info)
                      THEN AddFlag(
                             [counted EXCEPT
                                !.rcv.receivedInfoMap[sender].last_fir_request_ms = now,
                                !.rcv.receivedInfoMap[sender].last_fir_sequence_number
                                    = fir_request.seq_nr],
                             "kRtcpFir")
                      ELSE counted
             ELSE AddFlag(counted, "kRtcpFir")

RECURSIVE HandleFirRequests(_, _, _)
HandleFirRequests(c, sender, requests) ==
    IF requests = <<>> THEN c
    ELSE HandleFirRequests(HandleFirRequest(c, sender, Head(requests)), sender,
                           Tail(requests))

\* lines 1009-1047
HandleFIR(c, blk) ==
    IF ~blk.ok THEN Skip(c) ELSE HandleFirRequests(c, blk.ssrc, blk.items)

\* lines 892-907
HandlePLI(c, blk) ==
    IF ~blk.ok THEN Skip(c)
    ELSE IF c.rcv.main_ssrc = blk.media_ssrc
    THEN AddFlag([c EXCEPT !.rcv.pli_packets = @ + 1], "kRtcpPli")
    ELSE c

\* lines 956-965
HandleSR_REQ(c, blk) == IF ~blk.ok THEN Skip(c) ELSE AddFlag(c, "kRtcpSrReq")

\* lines 967-981: the picture id of the last macroblock item stays
HandleSLI(c, blk) ==
    IF ~blk.ok THEN Skip(c)
    ELSE IF blk.items = <<>> THEN c
    ELSE AddFlag([c EXCEPT !.pi.sliPictureId = blk.items[Len(blk.items)]], "kRtcpSli")

\* lines 983-995
HandleRPSI(c, blk) ==
    IF ~blk.ok THEN Skip(c)
    ELSE AddFlag([c EXCEPT !.pi.rpsiPictureId = blk.items[1]], "kRtcpRpsi")

\* lines 997-1007
HandlePsfbApp(c, blk) ==
    IF blk.ok
    THEN AddFlag([c EXCEPT !.pi.receiverEstimatedMaxBitrate = blk.items[1]], "kRtcpRemb")
    ELSE Skip(c)

\* lines 1049-1061: the packet information keeps the feedback, of which the
\* dispatcher reads the media source SSRC
HandleTransportFeedback(c, blk) ==
    IF ~blk.ok THEN Skip(c)
    ELSE AddFlag([c EXCEPT !.pi.transport_feedback = blk.media_ssrc],
                 "kRtcpTransportFeedback")

\* The keys of a std::map in iteration order.
RECURSIVE KeysInOrder(_)
KeysInOrder(S) ==
    IF S = {} THEN <<>>
    ELSE LET least == CHOOSE x \in S : \A y \in S : x <= y
         IN  <<least>> \o KeysInOrder(S \ {least})

\* RTCPReceiveInformation::GetTmmbrSet: the requesters whose entry is kept
\* (the others are erased), in map order.
FreshTmmbr(info, current_time_ms) ==
    {k \in DOMAIN info.tmmbr :
        ~(info.tmmbr[k].last_updated_ms
              < current_time_ms - 5 * RTCP_INTERVAL_AUDIO_MS)}

GetTmmbrSet(info, current_time_ms) ==
    [info EXCEPT !.tmmbr =
        [k \in FreshTmmbr(info, current_time_ms) |-> info.tmmbr[k]]]

RECURSIVE TmmbrItemsOf(_, _)
TmmbrItemsOf(tmmbr, keys) ==
    IF keys = <<>> THEN <<>>
    ELSE <<tmmbr[Head(keys)].tmmbr_item>> \o TmmbrItemsOf(tmmbr, Tail(keys))

RECURSIVE Candidates(_, _)
Candidates(m, keys) ==
    IF keys = <<>> THEN <<>>
    ELSE TmmbrItemsOf(m[Head(keys)].tmmbr, KeysInOrder(DOMAIN m[Head(keys)].tmmbr))
             \o Candidates(m, Tail(keys))

\* RTCPReceiver::TmmbrReceived: the store afterwards, and the vector returned.
TmmbrReceivedStore(r) ==
    [r EXCEPT !.receivedInfoMap =
        [k \in DOMAIN @ |-> GetTmmbrSet(@[k], now)]]

TmmbrReceivedResult(r) ==
    LET m == TmmbrReceivedStore(r).receivedInfoMap
    IN  Candidates(m, KeysInOrder(DOMAIN m))

\* TMMBRHelp::FindBoundingSet for requests of equal packet overhead: the
\* request of least bitrate bounds all the others.
FindBoundingSet(candidates) ==
    IF candidates = <<>> THEN <<>>
    ELSE LET i == CHOOSE j \in 1..Len(candidates) :
                     \A k \in 1..Len(candidates) :
                        \/ candidates[j].bitrate_bps < candidates[k].bitrate_bps
                        \/ (candidates[j].bitrate_bps = candidates[k].bitrate_bps
                              /\ j <= k)
         IN  <<candidates[i]>>

\* TMMBRHelp::CalcMinBitrateBps on a non-empty bounding set
CalcMinBitrateBps(bounding) ==
    LET i == CHOOSE j \in 1..Len(bounding) :
                 \A k \in 1..Len(bounding) :
                     bounding[j].bitrate_bps <= bounding[k].bitrate_bps
    IN  bounding[i].bitrate_bps

(***************************************************************************)
(* Inputs: the RTCP blocks a datagram may hold.  A block whose common      *)
(* header does not parse is "BADHDR"; ok = FALSE is a block whose typed    *)
(* parser rejects it.                                                      *)
(***************************************************************************)
SeqsUpTo(S, n) == UNION {[1..k -> S] : k \in 0..n}

ReportBlocks(Sources) ==
    [source_ssrc : Sources, extended_high_seq_num : 0..MaxSeq, jitter : {0},
     last_sr : {0}, delay_since_last_sr : {0}, fraction_lost : {0},
     cumulative_lost : {0}]

SenderInfos ==
    [ntp_secs : {7}, ntp_frac : {0}, rtp_timestamp : {9},
     packet_count : {1}, octet_count : {1}]

NoSenderInfo ==
    [ntp_secs |-> 0, ntp_frac |-> 0, rtp_timestamp |-> 0,
     packet_count |-> 0, octet_count |-> 0]

Block(type, ok, ssrc, rbs, chunks, sr) ==
    [type |-> type, ok |-> ok, ssrc |-> ssrc, rbs |-> rbs, chunks |-> chunks,
     sr |-> sr, media_ssrc |-> 0, items |-> <<>>, rrtrs |-> <<>>, dlrrs |-> <<>>]

BadHeader == Block("BADHDR", FALSE, 0, <<>>, <<>>, NoSenderInfo)

UnknownBlock == Block("UNKNOWN", TRUE, 0, <<>>, <<>>, NoSenderInfo)

\* blocks of the given types that their typed parser rejects
Rejected(Types) == {Block(t, FALSE, 0, <<>>, <<>>, NoSenderInfo) : t \in Types}

SrBlocks(Senders, Sources) ==
    {Block("SR", TRUE, s, rbs, <<>>, si) :
        s \in Senders, rbs \in SeqsUpTo(ReportBlocks(Sources), MaxReportBlocks),
        si \in SenderInfos}

RrBlocks(Senders, Sources) ==
    {Block("RR", TRUE, s, rbs, <<>>, NoSenderInfo) :
        s \in Senders, rbs \in SeqsUpTo(ReportBlocks(Sources), MaxReportBlocks)}

SdesBlocks(Senders, Names) ==
    {Block("SDES", TRUE, 0, <<>>, ch, NoSenderInfo) :
        ch \in SeqsUpTo([ssrc : Senders, cname : Names], MaxChunks)}

ByeBlocks(Senders) ==
    {Block("BYE", TRUE, s, <<>>, <<>>, NoSenderInfo) : s \in Senders}

\* TMMBR (requests) and TMMBN (bounding-set items): one item per block
TmmbItems(Targets, Rates) == [ssrc : Targets, bitrate_bps : Rates]

TmmbBlocks(Types, Senders, Medias, Targets, Rates) ==
    {[Block(t, TRUE, s, <<>>, <<>>, NoSenderInfo) EXCEPT
         !.media_ssrc = m, !.items = <<i>>] :
        t \in Types, s \in Senders, m \in Medias, i \in TmmbItems(Targets, Rates)}

\* FIR blocks of one request
FirBlocks(Senders, Targets, SeqNrs) ==
    {[Block("FIR", TRUE, s, <<>>, <<>>, NoSenderInfo) EXCEPT !.items = <<r>>] :
        s \in Senders, r \in [ssrc : Targets, seq_nr : SeqNrs]}

\* a feedback block of the given type, about the media stream media
FeedbackBlock(type, sender, media, items) ==
    [Block(type, TRUE, sender, <<>>, <<>>, NoSenderInfo) EXCEPT
        !.media_ssrc = media, !.items = items]

\* NACK blocks about the media of Medias, asking for the packets of Ids
NackBlocks(Senders, Medias, Ids) ==
    {[Block("NACK", TRUE, s, <<>>, <<>>, NoSenderInfo) EXCEPT
         !.media_ssrc = m, !.items = ids] :
        s \in Senders, m \in Medias, ids \in Ids}

\* A Receiver Report of sender whose one report block, about source, tells
\* the jitter and the highest sequence number seen.
JitterReport(sender, source, jitter, seq) ==
    Block("RR", TRUE, sender,
          <<[source_ssrc |-> source, extended_high_seq_num |-> seq,
             jitter |-> jitter, last_sr |-> 0, delay_since_last_sr |-> 0,
             fraction_lost |-> 0, cumulative_lost |-> 0]>>,
          <<>>, NoSenderInfo)

\* A Receiver Report of sender with one report block about source that
\* carries the given last_sr and delay_since_last_sr.
DelayReport(sender, source, last_sr, delay_since_last_sr) ==
    Block("RR", TRUE, sender,
          <<[source_ssrc |-> source, extended_high_seq_num |-> 0, jitter |-> 0,
             last_sr |-> last_sr, delay_since_last_sr |-> delay_since_last_sr,
             fraction_lost |-> 0, cumulative_lost |-> 0]>>,
          <<>>, NoSenderInfo)

\* 1/65536 s units in ms milliseconds
MsToCompactNtp(ms) == (ms * 65536) \div 1000

\* A Receiver Report of sender whose one report block, about source, answers
\* a Sender Report sent rtt_ms ago, with no holding delay.
RttReport(sender, source, rtt_ms) ==
    Block("RR", TRUE, sender,
          <<[source_ssrc |-> source, extended_high_seq_num |-> 0, jitter |-> 0,
             last_sr |-> (CompactNtp(ClockCurrentNtp) - MsToCompactNtp(rtt_ms))
                             % CompactNtpModulus,
             delay_since_last_sr |-> 0, fraction_lost |-> 0,
             cumulative_lost |-> 0]>>,
          <<>>, NoSenderInfo)

\* Extended reports: at most one RRTR block and one DLRR sub-block per block
XrBlocks(Senders, Rrtrs, Dlrrs) ==
    {[Block("XR", TRUE, s, <<>>, <<>>, NoSenderInfo) EXCEPT
         !.rrtrs = r, !.dlrrs = d] :
        s \in Senders, r \in SeqsUpTo(Rrtrs, 1), d \in SeqsUpTo(Dlrrs, 1)}

\* the compact NTP time of an instant (ms on the local clock) at which the
\* remote party was sent a report
CompactNtpAt(ms) ==
    CompactNtp([seconds |-> NtpEpochSecs + (ms \div 1000),
                fractions |-> ((ms % 1000) * 65536) \div 1000])

\* no block
NoBlock == Block("NONE", FALSE, 0, <<>>, <<>>, NoSenderInfo)

\* Whether handling blk increments num_skipped_packets_.
Skips(blk) == blk.type \in {"BADHDR", "UNKNOWN"} \/ ~blk.ok


(***************************************************************************)
(* Critical sections (rtc::CriticalSection, recursive).                    *)
(***************************************************************************)
Locks == {"session", "feedback"}

Threads == {"net", "query", "timer"}

\* Variant: a critical section that its owner cannot enter again.
CanEnterNonRecursive(l, t) == lock[l] = "none"

\* A thread enters a critical section that is free or that it already owns.
CanEnter(l, t) == lock[l] \in {"none", t}

Held(t) == {l \in Locks : lock[l] = t}

(***************************************************************************)
(* Events.                                                                 *)
(***************************************************************************)
Cb(name, held, arg) == [name |-> name, held |-> held, arg |-> arg]

\* locks: the critical sections the thread is inside while the step runs;
\* blk: the RTCP block the step handles
Ev(thread, op, arg, ret, cbs) ==
    [thread |-> thread, op |-> op, arg |-> arg, ret |-> ret, cbs |-> cbs,
     locks |-> Held(thread), blk |-> NoBlock]

\* pos: blocks of the datagram handled so far; bad_at: position of the header
\* that failed to parse; pi: packet_information; chunks: SDES chunks not yet
\* announced; calling: the operation an observer is calling from inside a
\* callback; parse_ssrc: main_ssrc_ as it was while the datagram was
\* parsed; log: the names of the callbacks that
\* TriggerCallbacksFromRTCPPacket has issued so far; dirty: the store was
\* changed or a callback was issued by this call of IncomingPacket; fired: a
\* callback was issued by this call; callee: the RtcpStatisticsCallback whose
\* method is running (0: none); called: the RtcpStatisticsCallback objects
\* this call of IncomingPacket has called.
IdleNet ==
    [pc |-> "idle", pos |-> 0, bad_at |-> 0, pi |-> NewPacketInformation,
     chunks |-> <<>>, reent |-> 0, calling |-> "none", dirty |-> FALSE,
     fired |-> FALSE, local_ssrc |-> 0, registered_ssrcs |-> {}, log |-> <<>>,
     parse_ssrc |-> 0, callee |-> 0, called |-> {}]

Configs ==
    [receiver_only : BOOLEAN, packet_type_counter_observer : BOOLEAN,
     bandwidth_observer : BOOLEAN, intra_frame_observer : BOOLEAN,
     transport_feedback_observer : BOOLEAN]

\* rr, seq: timeouts reported since the last accepted report block; sr: a
\* Sender Report of the remote SSRC was accepted; xr_read: the XR RTT was
\* read and none has been stored since; bye: the SSRCs that sent a BYE and
\* nothing since; sum: the sum of the RTT samples taken so far; nacks: the
\* NACK requests counted before the last datagram was fed; again: the last
\* datagram fed was the same as the one before it
NoHistory ==
    [rr |-> 0, seq |-> 0, accepted |-> FALSE, sr |-> FALSE, xr_read |-> FALSE,
     bye |-> {}, sum |-> 0, nacks |-> 0, again |-> FALSE]

Init ==
    /\ now = 1
    /\ rcv = NewReceiver
    /\ stats_callback = 0
    /\ cfg \in Configs
    /\ lock = [l \in Locks |-> "none"]
    /\ net = IdleNet
    /\ ev = Ev("none", "construct", 0, "void", <<>>)
    /\ hist = NoHistory
    /\ call = [t \in Threads \ {"net"} |-> "none"]

(***************************************************************************)
(* IncomingPacket on the ingestion thread.                                 *)
(***************************************************************************)
NetStep(n, r, cbs) ==
    [n EXCEPT !.dirty = net.dirty \/ r # rcv \/ cbs # <<>>,
              !.fired = net.fired \/ cbs # <<>>]

\* packet_size == 0 (lines 120-123)
IncomingPacketEmpty ==
    /\ net.pc = "idle"
    /\ net' = IdleNet
    /\ ev' = Ev("net", "IncomingPacket", "EMPTY", "false", <<>>)
    /\ UNCHANGED <<rcv, stats_callback, cfg, now, lock, hist, call>>

\* a non-empty datagram arrives: ParseCompoundPacket is entered (line 126)
IncomingPacketCall ==
    /\ net.pc = "idle"
    /\ net' = [IdleNet EXCEPT !.pc = "parse_lock"]
    /\ ev' = Ev("net", "Call", 0, "pending", <<>>)
    /\ UNCHANGED <<rcv, stats_callback, cfg, now, lock, hist, call>>

\* rtc::CritScope lock(&_criticalSectionRTCPReceiver) (line 303)
ParseLock ==
    /\ net.pc = "parse_lock"
    /\ CanEnter("session", "net")
    /\ lock' = [lock EXCEPT !.session = "net"]
    /\ net' = [net EXCEPT !.pc = "loop"]
    /\ ev' = Ev("net", "ParseLock", 0, "pending", <<>>)
    /\ UNCHANGED <<rcv, stats_callback, cfg, now, hist, call>>

\* Variant: a corrupt first header is skipped like a later one.
HeaderFailureAlwaysSkips(r, pos) ==
    [rcv |-> [r EXCEPT !.num_skipped_packets = @ + 1], next |-> "after_loop"]

\* Variant: the loop goes on to the next block after a corrupt later header.
HeaderFailureContinues(r, pos) ==
    IF pos = 0 THEN [rcv |-> r, next |-> "return_false"]
    ELSE [rcv |-> [r EXCEPT !.num_skipped_packets = @ + 1], next |-> "loop"]

\* rtcp_block.Parse fails (lines 310-318): what becomes of the store, and where
\* the parse goes next.
HeaderFailure(r, pos) ==
    IF pos = 0 THEN [rcv |-> r, next |-> "return_false"]
    ELSE [rcv |-> [r EXCEPT !.num_skipped_packets = @ + 1], next |-> "after_loop"]

ParseBadHeader ==
    /\ net.pc = "loop"
    /\ net.pos < MaxBlocks
    /\ rcv.num_skipped_packets < MaxSkipped
    /\ LET f == HeaderFailure(rcv, net.pos)
       IN  /\ rcv' = f.rcv
           /\ IF f.next = "return_false"
              THEN /\ lock' = [lock EXCEPT !.session = "none"]
                   /\ net' = [IdleNet EXCEPT !.dirty = net.dirty \/ f.rcv # rcv]
                   /\ ev' = Ev("net", "IncomingPacket", "BADHDR", "false", <<>>)
              ELSE /\ lock' = lock
                   /\ net' = NetStep([net EXCEPT !.pc = f.next,
                                                 !.bad_at = net.pos + 1,
                                                 !.pos = net.pos + 1], f.rcv, <<>>)
                   /\ ev' = Ev("net", "Parse", "BADHDR", "pending", <<>>)
    /\ UNCHANGED <<stats_callback, cfg, now, hist, call>>

\* The switch of ParseCompoundPacket (lines 323-386).  An SDES block with
\* chunks stores its first chunk here; the rest of HandleSDES follows in
\* SdesCallback and SdesNext.
DispatchBlock(c, blk) ==
    CASE blk.type = "SR" -> HandleSenderReport(c, blk)
      [] blk.type = "RR" -> HandleReceiverReport(c, blk)
      [] blk.type = "BYE" -> HandleBYE(c, blk)
      [] blk.type = "XR" -> HandleXr(c, blk)
      [] blk.type = "TMMBR" -> HandleTMMBR(c, blk)
      [] blk.type = "TMMBN" -> HandleTMMBN(c, blk)
      [] blk.type = "NACK" -> HandleNACK(c, blk)
      [] blk.type = "FIR" -> HandleFIR(c, blk)
      [] blk.type = "PLI" -> HandlePLI(c, blk)
      [] blk.type = "SR_REQ" -> HandleSR_REQ(c, blk)
      [] blk.type = "SLI" -> HandleSLI(c, blk)
      [] blk.type = "RPSI" -> HandleRPSI(c, blk)
      [] blk.type = "REMB" -> HandlePsfbApp(c, blk)
      [] blk.type = "TFB" -> HandleTransportFeedback(c, blk)
      [] blk.type = "SDES" ->
            IF ~blk.ok THEN Skip(c)
            ELSE IF blk.chunks = <<>> THEN AddFlag(c, "kRtcpSdes")
            ELSE [c EXCEPT !.rcv = StoreChunk(@, Head(blk.chunks))]
      [] OTHER -> Skip(c)

\* lines 306-307
FirstPacketTime(r) ==
    [r EXCEPT !.first_packet_time_ms = IF @ = -1 THEN now ELSE @]

\* The sum of the round-trip times that the report blocks rbs yield.
RECURSIVE SumOfSamples(_, _)
SumOfSamples(r, rbs) ==
    IF rbs = <<>> THEN 0
    ELSE (IF Head(rbs).source_ssrc \in r.registered_ssrcs /\ ComputesRtt(Head(rbs))
          THEN RttSample(Head(rbs)) ELSE 0)
         + SumOfSamples(r, Tail(rbs))

\* Handling blk stores a DLRR-derived RTT (lines 867-887).
StoresXrRtt(r, blk) ==
    /\ blk.type = "XR"
    /\ blk.ok
    /\ r.xr_rrtr_status
    /\ \E i \in DOMAIN blk.dlrrs :
           blk.dlrrs[i].ssrc \in r.registered_ssrcs /\ blk.dlrrs[i].last_rr # 0

\* The SSRCs that handling blk hears from: the sender of a block that parses,
\* the SSRC of the SDES chunk stored with the block.
Reporting(blk) ==
    IF ~blk.ok THEN {}
    ELSE IF blk.type = "SDES"
         THEN (IF blk.chunks = <<>> THEN {} ELSE {Head(blk.chunks).ssrc})
    ELSE IF blk.type \in {"SR", "RR", "XR", "TMMBR", "TMMBN", "FIR"} THEN {blk.ssrc}
    ELSE {}

\* What the block adds to the history: a report block was accepted, a Sender
\* Report of the current remote SSRC was processed.
Observe(blk, pi_before, pi_after) ==
    LET accepted == Len(pi_after.report_blocks) > Len(pi_before.report_blocks)
    IN  [rr |-> IF accepted THEN 0 ELSE hist.rr,
         seq |-> IF accepted THEN 0 ELSE hist.seq,
         accepted |-> hist.accepted \/ accepted,
         sr |-> hist.sr \/ (blk.type = "SR" /\ blk.ok /\ blk.ssrc = rcv.remoteSSRC),
         xr_read |-> hist.xr_read /\ ~StoresXrRtt(rcv, blk),
         bye |-> IF blk.type = "BYE" /\ blk.ok THEN hist.bye \cup {blk.ssrc}
                 ELSE hist.bye \ Reporting(blk),
         sum |-> IF blk.type \in {"SR", "RR"} /\ blk.ok
                 THEN hist.sum + SumOfSamples(rcv, blk.rbs) ELSE hist.sum,
         nacks |-> hist.nacks,
         again |-> FALSE]

\* One iteration of the loop on a block whose header parses.
ParseBlock(blk) ==
    /\ net.pc = "loop"
    /\ net.pos < MaxBlocks
    /\ blk.type # "BADHDR"
    /\ Skips(blk) => rcv.num_skipped_packets < MaxSkipped
    /\ LET c == DispatchBlock([rcv |-> FirstPacketTime(rcv), pi |-> net.pi], blk)
           chunked == blk.type = "SDES" /\ blk.ok /\ blk.chunks # <<>>
       IN  /\ rcv' = c.rcv
           /\ net' = NetStep([net EXCEPT
                                !.pi = c.pi,
                                !.pc = IF chunked THEN "sdes_lock" ELSE "loop",
                                !.chunks = IF chunked THEN blk.chunks ELSE <<>>,
                                !.pos = IF chunked THEN @ ELSE @ + 1],
                             c.rcv, <<>>)
           /\ hist' = Observe(blk, net.pi, c.pi)
    /\ ev' = [Ev("net", "Parse", blk.type, "pending", <<>>) EXCEPT !.blk = blk]
    /\ UNCHANGED <<stats_callback, cfg, now, lock, call>>

\* HandleSDES, lines 766-769: the feedback lock is taken with the session lock
\* held, and CNameChanged is called under both.
SdesCallback ==
    /\ net.pc = "sdes_lock"
    /\ CanEnter("feedback", "net")
    /\ lock' = [lock EXCEPT !.feedback = "net"]
    /\ LET cbs == IF stats_callback # 0
                  THEN <<Cb("CNameChanged", Held("net") \cup {"feedback"},
                            Head(net.chunks).ssrc)>>
                  ELSE <<>>
       IN  /\ net' = NetStep([net EXCEPT !.pc = "sdes_cb",
                                         !.callee = stats_callback,
                                         !.called = @ \cup ({stats_callback} \ {0}),
                                         !.reent = IF cbs = <<>> THEN MaxReenter ELSE 0],
                             rcv, cbs)
           /\ ev' = Ev("net", "HandleSDES", stats_callback, "pending", cbs)
    /\ UNCHANGED <<rcv, stats_callback, cfg, now, hist, call>>

\* HandleSDES, lines 770-772: the feedback lock is left; the next chunk is
\* stored, or kRtcpSdes is set and the loop goes on.
SdesNext ==
    /\ net.pc = "sdes_cb"
    /\ net.calling = "none"
    /\ lock' = [lock EXCEPT !.feedback = "none"]
    /\ LET rest == Tail(net.chunks)
           r == IF rest = <<>> THEN rcv ELSE StoreChunk(rcv, Head(rest))
       IN  /\ rcv' = r
           /\ net' = NetStep(
                       IF rest = <<>>
                       THEN [net EXCEPT !.pc = "loop", !.pos = @ + 1,
                                        !.chunks = <<>>, !.callee = 0,
                                        !.pi.rtcpPacketTypeFlags = @ \cup {"kRtcpSdes"}]
                       ELSE [net EXCEPT !.pc = "sdes_lock", !.chunks = rest,
                                        !.callee = 0],
                       r, <<>>)
           /\ hist' = IF rest = <<>> THEN hist
                      ELSE [hist EXCEPT !.bye = @ \ {Head(rest).ssrc}]
    /\ ev' = Ev("net", "HandleSDES", 0, "pending", <<>>)
    /\ UNCHANGED <<stats_callback, cfg, now, call>>

\* The datagram has no more blocks (line 305).
LoopEnd ==
    /\ net.pc = "loop"
    /\ net.pos >= 1
    /\ net' = [net EXCEPT !.pc = "after_loop"]
    /\ ev' = Ev("net", "LoopEnd", 0, "pending", <<>>)
    /\ UNCHANGED <<rcv, stats_callback, cfg, now, lock, hist, call>>

\* lines 389-392: the observer is called inside ParseCompoundPacket, whose
\* CritScope is still in scope.
PacketTypeCounterCallback ==
    /\ net.pc = "after_loop"
    /\ LET cbs == IF cfg.packet_type_counter_observer
                  THEN <<Cb("RtcpPacketTypesCounterUpdated", Held("net"),
                            rcv.main_ssrc)>>
                  ELSE <<>>
       IN  /\ net' = NetStep([net EXCEPT !.pc = "ptc_cb",
                                         !.reent = IF cbs = <<>> THEN MaxReenter ELSE 0],
                             rcv, cbs)
           /\ ev' = Ev("net", "ParseCompoundPacket", 0, "pending", cbs)
    /\ UNCHANGED <<rcv, stats_callback, cfg, now, lock, hist, call>>

\* lines 394-402
SkippedWarning(r) ==
    IF now - r.last_skipped_packets_warning >= kMaxWarningLogIntervalMs
       /\ r.num_skipped_packets > 0
    THEN [r EXCEPT !.last_skipped_packets_warning = now]
    ELSE r

\* lines 394-405: ParseCompoundPacket returns true and leaves the session lock.
ParseReturn ==
    /\ net.pc = "ptc_cb"
    /\ net.calling = "none"
    /\ rcv' = SkippedWarning(rcv)
    /\ lock' = [lock EXCEPT !.session = "none"]
    /\ net' = NetStep([net EXCEPT !.pc = "trigger", !.parse_ssrc = rcv.main_ssrc],
                      rcv', <<>>)
    /\ ev' = Ev("net", "ParseReturn", 0, "pending", <<>>)
    /\ UNCHANGED <<stats_callback, cfg, now, hist, call>>

(***************************************************************************)
(* TriggerCallbacksFromRTCPPacket.                                         *)
(***************************************************************************)
HasFlag(pi, f) == f \in pi.rtcpPacketTypeFlags

\* the names of the callbacks of cbs, in their order
Names(cbs) == [i \in DOMAIN cbs |-> cbs[i].name]

\* Variant: SetTmmbn is called before the bandwidth observer.
UpdateTmmbrCallbacksTmmbnFirst(bounding, held) ==
    <<Cb("SetTmmbn", held, bounding)>>
    \o (IF bounding # <<>> /\ cfg.bandwidth_observer
        THEN <<Cb("OnReceivedEstimatedBitrate", held, CalcMinBitrateBps(bounding))>>
        ELSE <<>>)

\* UpdateTmmbr (lines 1063-1077), called first when kRtcpTmmbr is set:
\* TmmbrReceived under the session lock, then the callbacks outside it.
UpdateTmmbrCallbacks(bounding, held) ==
    (IF bounding # <<>> /\ cfg.bandwidth_observer
     THEN <<Cb("OnReceivedEstimatedBitrate", held, CalcMinBitrateBps(bounding))>>
     ELSE <<>>)
    \o <<Cb("SetTmmbn", held, bounding)>>

UpdateTmmbr ==
    /\ net.pc = "trigger"
    /\ HasFlag(net.pi, "kRtcpTmmbr")
    /\ CanEnter("session", "net")
    /\ rcv' = TmmbrReceivedStore(rcv)
    /\ LET cbs == UpdateTmmbrCallbacks(FindBoundingSet(TmmbrReceivedResult(rcv)),
                                       Held("net"))
       IN  /\ net' = NetStep([net EXCEPT !.pc = "snapshot", !.log = @ \o Names(cbs)],
                             rcv', cbs)
           /\ ev' = [Ev("net", "UpdateTmmbr", 0, "pending", cbs)
                        EXCEPT !.locks = {"session"}]
    /\ UNCHANGED <<stats_callback, cfg, now, lock, hist, call>>

\* lines 1099-1106: main_ssrc_ and registered_ssrcs_ are copied under the lock.
Snapshot ==
    /\ \/ net.pc = "snapshot"
       \/ net.pc = "trigger" /\ ~HasFlag(net.pi, "kRtcpTmmbr")
    /\ CanEnter("session", "net")
    /\ net' = [net EXCEPT !.pc = "callbacks", !.local_ssrc = rcv.main_ssrc,
                          !.registered_ssrcs = rcv.registered_ssrcs]
    /\ ev' = [Ev("net", "Snapshot", 0, "pending", <<>>) EXCEPT !.locks = {"session"}]
    /\ UNCHANGED <<rcv, stats_callback, cfg, now, lock, hist, call>>

\* lines 1124-1125 and 1146-1147: RTC_DCHECK(!receiver_only_) behind each of
\* the two observer tests.
DispatcherAssertions ==
    /\ cfg.intra_frame_observer => ~cfg.receiver_only
    /\ cfg.bandwidth_observer => ~cfg.receiver_only

\* the callback when the condition holds
When(condition, cb) == IF condition THEN <<cb>> ELSE <<>>

\* lines 1107-1177
DispatchCallbacks(pi, held) ==
    LET reports == HasFlag(pi, "kRtcpSr") \/ HasFlag(pi, "kRtcpRr")
    IN  When(~cfg.receiver_only /\ HasFlag(pi, "kRtcpSrReq"),
             Cb("OnRequestSendReport", held, 0))
        \o When(~cfg.receiver_only /\ HasFlag(pi, "kRtcpNack")
                   /\ pi.nackSequenceNumbers # <<>>,
                Cb("OnReceivedNack", held, pi.nackSequenceNumbers))
        \o When(cfg.intra_frame_observer
                   /\ (HasFlag(pi, "kRtcpPli") \/ HasFlag(pi, "kRtcpFir")),
                Cb("OnReceivedIntraFrameRequest", held, net.local_ssrc))
        \o When(cfg.intra_frame_observer /\ HasFlag(pi, "kRtcpSli"),
                Cb("OnReceivedSLI", held, <<net.local_ssrc, pi.sliPictureId>>))
        \o When(cfg.intra_frame_observer /\ HasFlag(pi, "kRtcpRpsi"),
                Cb("OnReceivedRPSI", held, <<net.local_ssrc, pi.rpsiPictureId>>))
        \o When(cfg.bandwidth_observer /\ HasFlag(pi, "kRtcpRemb"),
                Cb("OnReceivedEstimatedBitrate", held, pi.receiverEstimatedMaxBitrate))
        \o When(cfg.bandwidth_observer /\ reports,
                Cb("OnReceivedRtcpReceiverReport", held, pi.report_blocks))
        \o When(reports, Cb("OnReceivedRtcpReportBlocks", held, pi.report_blocks))
        \o When(cfg.transport_feedback_observer
                   /\ HasFlag(pi, "kRtcpTransportFeedback")
                   /\ (pi.transport_feedback = net.local_ssrc
                         \/ pi.transport_feedback \in net.registered_ssrcs),
                Cb("OnTransportFeedback", held, pi.transport_feedback))

\* lines 1183-1192: one StatisticsUpdated per report block
RECURSIVE StatisticsCallbacks(_, _)
StatisticsCallbacks(report_blocks, held) ==
    IF report_blocks = <<>> THEN <<>>
    ELSE <<Cb("StatisticsUpdated", held, Head(report_blocks).sourceSSRC)>>
             \o StatisticsCallbacks(Tail(report_blocks), held)

\* lines 1107-1177: the dispatcher callbacks, outside both locks.
Callbacks ==
    /\ net.pc = "callbacks"
    /\ LET cbs == DispatchCallbacks(net.pi, Held("net"))
       IN  IF cfg.receiver_only
           THEN /\ net' = IdleNet
                /\ ev' = Ev("net", "IncomingPacket", "-", "true", cbs)
           ELSE /\ net' = NetStep([net EXCEPT !.pc = "stats_lock",
                                              !.log = @ \o Names(cbs)], rcv, cbs)
                /\ ev' = Ev("net", "TriggerCallbacks", 0, "pending", cbs)
    /\ UNCHANGED <<rcv, stats_callback, cfg, now, lock, hist, call>>

\* lines 1179-1193: StatisticsUpdated is called under the feedback lock.
StatisticsCallback ==
    /\ net.pc = "stats_lock"
    /\ CanEnter("feedback", "net")
    /\ lock' = [lock EXCEPT !.feedback = "net"]
    /\ LET cbs == IF stats_callback # 0
                  THEN StatisticsCallbacks(net.pi.report_blocks,
                                           Held("net") \cup {"feedback"})
                  ELSE <<>>
       IN  /\ net' = NetStep([net EXCEPT !.pc = "stats_cb",
                                         !.callee = stats_callback,
                                         !.called = @ \cup (IF cbs = <<>> THEN {}
                                                            ELSE {stats_callback}),
                                         !.log = @ \o Names(cbs),
                                         !.reent = IF cbs = <<>> THEN MaxReenter ELSE 0],
                             rcv, cbs)
           /\ ev' = Ev("net", "TriggerCallbacks", stats_callback, "pending", cbs)
    /\ UNCHANGED <<rcv, stats_callback, cfg, now, hist, call>>

\* line 1194, then IncomingPacket returns true (line 129)
TriggerReturn ==
    /\ net.pc = "stats_cb"
    /\ net.calling = "none"
    /\ lock' = [lock EXCEPT !.feedback = "none"]
    /\ net' = IdleNet
    /\ ev' = Ev("net", "IncomingPacket", "-", "true", <<>>)
    /\ UNCHANGED <<rcv, stats_callback, cfg, now, hist, call>>

(***************************************************************************)
(* The public operations.  A query or timer thread enters the operation's  *)
(* critical section (Enter) and then runs its body; an observer called on  *)
(* the ingestion thread while a lock is held may call an operation from    *)
(* inside the callback (ObserverCall), which then runs on that thread.     *)
(***************************************************************************)
InCallback == net.pc \in {"sdes_cb", "ptc_cb", "stats_cb"}

ObserverCall(op) ==
    /\ InCallback
    /\ net.calling = "none"
    /\ net.reent < MaxReenter
    /\ net' = [net EXCEPT !.calling = op, !.reent = @ + 1]
    /\ ev' = Ev("net", "ObserverCall", op, "pending", <<>>)
    /\ UNCHANGED <<rcv, stats_callback, cfg, now, lock, hist, call>>

\* the thread that calls each operation
Role(op) ==
    IF op \in {"RtcpRrTimeout", "RtcpRrSequenceNumberTimeout",
               "UpdateRTCPReceiveInformationTimers"}
    THEN "timer" ELSE "query"

\* Variant: every operation takes the session lock.
LocksOfOneLock(op) == {"session"}

\* Variant: SetRemoteSSRC without its CritScope.
LocksOfUnguarded(op) ==
    IF op = "RegisterRtcpStatisticsCallback" THEN {"feedback"}
    ELSE IF op = "SetRemoteSSRC" THEN {}
    ELSE {"session"}

\* the CritScope at the head of each operation
LocksOf(op) ==
    IF op = "RegisterRtcpStatisticsCallback" THEN {"feedback"} ELSE {"session"}

Enters(t, op) == \A l \in LocksOf(op) : CanEnter(l, t)

Enter(t, op) ==
    /\ t # "net"
    /\ t = Role(op)
    /\ call[t] = "none"
    /\ Enters(t, op)
    /\ lock' = [l \in Locks |-> IF l \in LocksOf(op) THEN t ELSE lock[l]]
    /\ call' = [call EXCEPT ![t] = op]
    /\ ev' = Ev(t, "Enter", op, "pending", <<>>)
    /\ UNCHANGED <<rcv, stats_callback, cfg, now, net, hist>>

\* t is about to run the body of op
Calls(t, op) ==
    IF t = "net" THEN net.calling = op /\ Enters(t, op) ELSE call[t] = op

\* the critical sections t is still inside once the CritScope of an
\* operation has gone out of scope
HeldAfter(t) == IF t = "net" THEN Held(t) ELSE {}

\* The body of an operation: the store becomes r, ret is returned, and cbs are
\* the callbacks it issues.
PublicOp(t, op, arg, r, ret, cbs) ==
    /\ Calls(t, op)
    /\ rcv' = r
    /\ IF t = "net"
       THEN /\ net' = [net EXCEPT !.calling = "none",
                                  !.dirty = @ \/ r # rcv \/ cbs # <<>>,
                                  !.fired = @ \/ cbs # <<>>]
            /\ UNCHANGED <<lock, call>>
       ELSE /\ lock' = [l \in Locks |-> IF l \in LocksOf(op) THEN "none" ELSE lock[l]]
            /\ call' = [call EXCEPT ![t] = "none"]
            /\ net' = net
    /\ ev' = [Ev(t, op, arg, ret, cbs) EXCEPT !.locks = @ \cup LocksOf(op)]
    /\ UNCHANGED <<cfg, now>>

\* lines 144-153
SetRemoteSSRC(t, ssrc) ==
    /\ PublicOp(t, "SetRemoteSSRC", ssrc,
                [rcv EXCEPT !.remoteSenderInfo = ZeroSenderInfo,
                            !.lastReceivedSRNTPsecs = 0,
                            !.lastReceivedSRNTPfrac = 0,
                            !.remoteSSRC = ssrc],
                "void", <<>>)
    /\ hist' = [hist EXCEPT !.sr = FALSE]
    /\ UNCHANGED stats_callback

\* lines 160-174: OnLocalSsrcChanged is called after the CritScope
SetSsrcs(t, main_ssrc, registered_ssrcs) ==
    /\ PublicOp(t, "SetSsrcs", main_ssrc,
                [rcv EXCEPT !.main_ssrc = main_ssrc,
                            !.registered_ssrcs = registered_ssrcs],
                "void",
                IF cfg.intra_frame_observer /\ rcv.main_ssrc # main_ssrc
                THEN <<Cb("OnLocalSsrcChanged", HeldAfter(t), main_ssrc)>>
                ELSE <<>>)
    /\ UNCHANGED <<stats_callback, hist>>

\* lines 272-280: the result, and the sender info copied out
SenderInfoReceived(t) ==
    /\ PublicOp(t, "SenderInfoReceived", rcv.remoteSenderInfo, rcv,
                IF rcv.lastReceivedSRNTPsecs = 0 THEN "-1" ELSE "0", <<>>)
    /\ UNCHANGED <<stats_callback, hist>>

\* lines 220-246: every output is copied out and the result is true, whatever
\* has been received ("TODO(pbos): Make this fail when we haven't received
\* NTP", line 220).
NTP(t) ==
    /\ PublicOp(t, "NTP",
                [ReceivedNTPsecs |-> rcv.remoteSenderInfo.NTPseconds,
                 ReceivedNTPfrac |-> rcv.remoteSenderInfo.NTPfraction,
                 RTCPArrivalTimeSecs |-> rcv.lastReceivedSRNTPsecs,
                 RTCPArrivalTimeFrac |-> rcv.lastReceivedSRNTPfrac,
                 rtcp_timestamp |-> rcv.remoteSenderInfo.RTPtimeStamp],
                rcv, "true", <<>>)
    /\ UNCHANGED <<stats_callback, hist>>

\* lines 204-207
SetRtcpXrRrtrStatus(t, enable) ==
    /\ PublicOp(t, "SetRtcpXrRrtrStatus", enable,
                [rcv EXCEPT !.xr_rrtr_status = enable], "void", <<>>)
    /\ UNCHANGED <<stats_callback, hist>>

\* Variant: the value read stays in place.
KeepXrRrRtt(r) == r

\* line 216
ClearXrRrRtt(r) == [r EXCEPT !.xr_rr_rtt_ms = 0]

\* lines 209-218: *rtt_ms is written only when the result is true
GetAndResetXrRrRtt(t) ==
    LET empty == rcv.xr_rr_rtt_ms = 0
    IN  /\ PublicOp(t, "GetAndResetXrRrRtt", rcv.xr_rr_rtt_ms,
                    IF empty THEN rcv ELSE ClearXrRrRtt(rcv),
                    IF empty THEN "false" ELSE "true", <<>>)
        /\ hist' = [hist EXCEPT !.xr_read = @ \/ ~empty]
        /\ UNCHANGED stats_callback

\* Variant: the timeout is reached at exactly three intervals.
TimedOutInclusive(last_ms, rtcp_interval_ms) ==
    now >= last_ms + kRrTimeoutIntervals * rtcp_interval_ms

\* the comparison of lines 669 and 683
TimedOut(last_ms, rtcp_interval_ms) ==
    now > last_ms + kRrTimeoutIntervals * rtcp_interval_ms

\* Variant: a reported timeout leaves the checkpoint in place.
KeepRrTimer(r) == r

\* line 671: "Reset the timer to only trigger one log."
ResetRrTimer(r) == [r EXCEPT !.lastReceivedRrMs = 0]

\* lines 663-675
RtcpRrTimeout(t, rtcp_interval_ms) ==
    LET fires == rcv.lastReceivedRrMs # 0
                   /\ TimedOut(rcv.lastReceivedRrMs, rtcp_interval_ms)
    IN  /\ PublicOp(t, "RtcpRrTimeout", rtcp_interval_ms,
                    IF fires THEN ResetRrTimer(rcv) ELSE rcv,
                    IF fires THEN "true" ELSE "false", <<>>)
        /\ hist' = IF fires THEN [hist EXCEPT !.rr = Min(@ + 1, 2)] ELSE hist
        /\ UNCHANGED stats_callback

\* Variant: a reported sequence-number timeout leaves the checkpoint in place.
KeepSequenceNumberTimer(r) == r

\* line 685: "Reset the timer to only trigger one log."
ResetSequenceNumberTimer(r) == [r EXCEPT !.lastIncreasedSequenceNumberMs = 0]

\* lines 677-690
RtcpRrSequenceNumberTimeout(t, rtcp_interval_ms) ==
    LET fires == rcv.lastIncreasedSequenceNumberMs # 0
                   /\ TimedOut(rcv.lastIncreasedSequenceNumberMs, rtcp_interval_ms)
    IN  /\ PublicOp(t, "RtcpRrSequenceNumberTimeout", rtcp_interval_ms,
                    IF fires THEN ResetSequenceNumberTimer(rcv) ELSE rcv,
                    IF fires THEN "true" ELSE "false", <<>>)
        /\ hist' = IF fires THEN [hist EXCEPT !.seq = Min(@ + 1, 2)] ELSE hist
        /\ UNCHANGED stats_callback

\* lines 1211-1223
TmmbrReceived(t) ==
    /\ PublicOp(t, "TmmbrReceived", 0, TmmbrReceivedStore(rcv),
                TmmbrReceivedResult(rcv), <<>>)
    /\ UNCHANGED <<stats_callback, hist>>

\* Variant: a party counts as silent once five audio report intervals have passed.
SweepTimesOutInclusive(info) ==
    /\ info.last_time_received_ms > 0
    /\ now - info.last_time_received_ms >= 5 * RTCP_INTERVAL_AUDIO_MS

\* Variant: a party that a BYE has marked is never timed out.
SweepTimesOutUnmarked(info) ==
    /\ ~info.ready_for_delete
    /\ info.last_time_received_ms > 0
    /\ now - info.last_time_received_ms > 5 * RTCP_INTERVAL_AUDIO_MS

\* line 709 and lines 712-713: the party has been silent for more than five
\* audio report intervals
SweepTimesOut(info) ==
    /\ info.last_time_received_ms > 0
    /\ now - info.last_time_received_ms > 5 * RTCP_INTERVAL_AUDIO_MS

\* Variant: an entry marked by a BYE is erased whenever the sweep meets it.
SweepErasesFlagged(info) == info.ready_for_delete

\* lines 709 and 722: an entry is erased when it has no time of last
\* reception and is marked ready for delete
SweepErases(info) ==
    ~(info.last_time_received_ms > 0) /\ info.ready_for_delete

\* Variant: an entry is erased as soon as it times out.
SweepErasesSilent(m) ==
    [s \in {k \in DOMAIN m : ~SweepErases(m[k]) /\ ~SweepTimesOut(m[k])} |-> m[s]]

\* lines 701-732, the walk over _receivedInfoMap
SweepReceiveInformation(m) ==
    [s \in {k \in DOMAIN m : ~SweepErases(m[k])} |->
        IF SweepTimesOut(m[s])
        THEN [m[s] EXCEPT !.tmmbr = <<>>, !.last_time_received_ms = 0]
        ELSE m[s]]

\* lines 692-734: the result is updateBoundingSet
UpdateRTCPReceiveInformationTimers(t) ==
    LET m == rcv.receivedInfoMap
    IN  /\ PublicOp(t, "UpdateRTCPReceiveInformationTimers", 0,
                    [rcv EXCEPT !.receivedInfoMap = SweepReceiveInformation(m)],
                    IF \E s \in DOMAIN m : SweepTimesOut(m[s])
                    THEN "true" ELSE "false",
                    <<>>)
        /\ UNCHANGED <<stats_callback, hist>>

\* lines 176-202: the report block of remoteSSRC about main_ssrc_
RTT(t, remoteSSRC) ==
    LET key == <<rcv.main_ssrc, remoteSSRC>>
        found == GetReportBlockInformation(rcv.receivedReportBlockMap,
                                           remoteSSRC, rcv.main_ssrc)
        info == IF found THEN rcv.receivedReportBlockMap[key]
                ELSE NewReportBlockInformation
    IN  /\ PublicOp(t, "RTT",
                    [remoteSSRC |-> remoteSSRC, RTT |-> info.RTT,
                     avgRTT |-> info.avgRTT, minRTT |-> info.minRTT,
                     maxRTT |-> info.maxRTT],
                    rcv, IF found THEN "0" ELSE "-1", <<>>)
        /\ UNCHANGED <<stats_callback, hist>>

\* lines 1197-1209
CNAME(t, remoteSSRC) ==
    LET found == Has(rcv.receivedCnameMap, remoteSSRC)
    IN  /\ PublicOp(t, "CNAME",
                    [remoteSSRC |-> remoteSSRC,
                     cName |-> IF found
                               THEN CopyCname(rcv.receivedCnameMap[remoteSSRC])
                               ELSE <<>>],
                    rcv, IF found THEN "0" ELSE "-1", <<>>)
        /\ UNCHANGED <<stats_callback, hist>>

\* The keys <<source, remote>> of the report-block map in iteration order:
\* by source SSRC, then by remote SSRC.
RECURSIVE PairsInOrder(_)
PairsInOrder(S) ==
    IF S = {} THEN <<>>
    ELSE LET least == CHOOSE x \in S : \A y \in S :
                          x[1] < y[1] \/ (x[1] = y[1] /\ x[2] <= y[2])
         IN  <<least>> \o PairsInOrder(S \ {least})

\* lines 284-297
StatisticsReceived(t) ==
    LET m == rcv.receivedReportBlockMap
        keys == PairsInOrder(DOMAIN m)
    IN  /\ PublicOp(t, "StatisticsReceived",
                    [i \in DOMAIN keys |-> m[keys[i]].remoteReceiveBlock],
                    rcv, "0", <<>>)
        /\ UNCHANGED <<stats_callback, hist>>

\* lines 736-750: the result is the tmmbn of the remote SSRC's receive
\* information; *tmmbr_owner is written only when there is one
BoundingSet(t) ==
    LET found == Has(rcv.receivedInfoMap, rcv.remoteSSRC)
        tmmbn == IF found THEN rcv.receivedInfoMap[rcv.remoteSSRC].tmmbn ELSE <<>>
    IN  /\ PublicOp(t, "BoundingSet",
                    [tmmbr_owner |->
                        IF ~found THEN "unset"
                        ELSE IF \E i \in DOMAIN tmmbn : tmmbn[i].ssrc = rcv.main_ssrc
                        THEN "true" ELSE "false"],
                    rcv, tmmbn, <<>>)
        /\ UNCHANGED <<stats_callback, hist>>

\* lines 1079-1083
RegisterRtcpStatisticsCallback(t, callback) ==
    /\ PublicOp(t, "RegisterRtcpStatisticsCallback", callback, rcv, "void", <<>>)
    /\ stats_callback' = callback
    /\ UNCHANGED hist

\* the clock moves forward
Tick ==
    /\ now < MaxTime
    /\ now' = now + 1
    /\ ev' = Ev("clock", "Tick", 0, "void", <<>>)
    /\ UNCHANGED <<rcv, stats_callback, cfg, lock, net, hist, call>>

\* the clock moves forward by five audio report intervals
TickInterval ==
    /\ now + 5 * RTCP_INTERVAL_AUDIO_MS <= MaxTime + MaxSilences * 5 * RTCP_INTERVAL_AUDIO_MS
    /\ now' = now + 5 * RTCP_INTERVAL_AUDIO_MS
    /\ ev' = Ev("clock", "Tick", 0, "void", <<>>)
    /\ UNCHANGED <<rcv, stats_callback, cfg, lock, net, hist, call>>

(***************************************************************************)
(* The steps of IncomingPacket that every datagram goes through.           *)
(***************************************************************************)
NetSteps ==
    \/ IncomingPacketCall
    \/ ParseLock
    \/ LoopEnd
    \/ PacketTypeCounterCallback
    \/ ParseReturn
    \/ Snapshot
    \/ Callbacks
    \/ StatisticsCallback
    \/ TriggerReturn

AllObservers ==
    [receiver_only |-> FALSE, packet_type_counter_observer |-> TRUE,
     bandwidth_observer |-> TRUE, intra_frame_observer |-> TRUE,
     transport_feedback_observer |-> TRUE]

(***************************************************************************)
(* Spec: the three threads and the two locks.  Datagrams of RR, SDES and   *)
(* TMMBR blocks from one remote party; setters and timer polls on the      *)
(* other threads; observers that call back into the receiver.              *)
(***************************************************************************)
ThreadBlocks ==
    RrBlocks({1}, {1}) \cup SdesBlocks({1}, {<<1>>})
        \cup TmmbBlocks({"TMMBR"}, {1}, {0}, {1}, {1})

ThreadOps ==
    {"SetSsrcs", "SetRemoteSSRC", "RegisterRtcpStatisticsCallback", "RtcpRrTimeout"}

ReentrantOps == {"SetRemoteSSRC", "SenderInfoReceived"}

Next ==
    \/ NetSteps
    \/ \E blk \in ThreadBlocks : ParseBlock(blk)
    \/ SdesCallback
    \/ SdesNext
    \/ UpdateTmmbr
    \/ \E op \in ReentrantOps : ObserverCall(op)
    \/ \E t \in Threads, op \in ThreadOps : Enter(t, op)
    \/ \E t \in Threads : SetRemoteSSRC(t, 2)
    \/ SenderInfoReceived("net")
    \/ SetSsrcs("query", 1, {1})
    \/ RegisterRtcpStatisticsCallback("query", 1)
    \/ RtcpRrTimeout("timer", 1)

InitThreads == Init /\ cfg = AllObservers

Spec == InitThreads /\ [][Next]_vars

(***************************************************************************)
(* SpecParse: one thread feeding datagrams with corrupt headers, rejected  *)
(* and unknown blocks among RR and BYE blocks.                             *)
(***************************************************************************)
ParseBlocks ==
    RrBlocks({1}, {1}) \cup ByeBlocks({1}) \cup Rejected({"RR"}) \cup {UnknownBlock}

InitParse == Init /\ cfg = AllObservers

NextParse ==
    \/ NetSteps
    \/ IncomingPacketEmpty
    \/ ParseBadHeader
    \/ \E blk \in ParseBlocks : ParseBlock(blk)
    \/ \E op \in {"SetSsrcs", "RegisterRtcpStatisticsCallback"} : Enter("query", op)
    \/ SetSsrcs("query", 1, {1})
    \/ RegisterRtcpStatisticsCallback("query", 1)

SpecParse == InitParse /\ [][NextParse]_vars

(***************************************************************************)
(* SpecTimers: the two report timeouts against a moving clock.             *)
(***************************************************************************)
TimerBlocks == RrBlocks({1}, Ssrcs)

InitTimers == Init /\ cfg = AllObservers

NextTimers ==
    \/ NetSteps
    \/ \E blk \in TimerBlocks : ParseBlock(blk)
    \/ \E op \in {"SetSsrcs"} : Enter("query", op)
    \/ \E op \in {"RtcpRrTimeout", "RtcpRrSequenceNumberTimeout"} : Enter("timer", op)
    \/ SetSsrcs("query", 1, {1})
    \/ \E i \in 1..MaxInterval : RtcpRrTimeout("timer", i)
    \/ \E i \in 1..MaxInterval : RtcpRrSequenceNumberTimeout("timer", i)
    \/ Tick

SpecTimers == InitTimers /\ [][NextTimers]_vars

(***************************************************************************)
(* SpecSender: Sender Reports from several parties while the remote SSRC   *)
(* is switched.                                                            *)
(***************************************************************************)
SenderBlocks == SrBlocks(Ssrcs, {})

InitSender == Init /\ cfg = AllObservers

NextSender ==
    \/ NetSteps
    \/ \E blk \in SenderBlocks : ParseBlock(blk)
    \/ \E op \in {"SetRemoteSSRC", "SenderInfoReceived", "NTP"} : Enter("query", op)
    \/ \E ssrc \in Ssrcs : SetRemoteSSRC("query", ssrc)
    \/ SenderInfoReceived("query")
    \/ NTP("query")

SpecSender == InitSender /\ [][NextSender]_vars

(***************************************************************************)
(* SpecXr: extended reports (RRTR, DLRR) and BYE against a moving clock,   *)
(* with the XR round-trip time read destructively.                         *)
(***************************************************************************)
\* The DLRR sub-blocks answer a report sent at time 1, with no holding delay.
XrDlrrs ==
    [ssrc : {1}, last_rr : {0, CompactNtpAt(1)}, delay_since_last_rr : {0}]

XrRrtrs == {[ntp |-> [seconds |-> NtpEpochSecs, fractions |-> 0]]}

XrSpecBlocks == XrBlocks({1}, XrRrtrs, XrDlrrs) \cup ByeBlocks({2})

InitXr == Init /\ cfg = AllObservers

NextXr ==
    \/ NetSteps
    \/ \E blk \in XrSpecBlocks : ParseBlock(blk)
    \/ \E op \in {"SetSsrcs", "SetRtcpXrRrtrStatus", "GetAndResetXrRrRtt"} :
           Enter("query", op)
    \/ SetSsrcs("query", 1, {1})
    \/ SetRtcpXrRrtrStatus("query", TRUE)
    \/ GetAndResetXrRrRtt("query")
    \/ Tick

SpecXr == InitXr /\ [][NextXr]_vars

(***************************************************************************)
(* SpecSweep: parties that report, name themselves and leave, the sweep of *)
(* the receive informations on the timer thread, and the queries about a   *)
(* remote party, while the clock moves by five report intervals at once.   *)
(***************************************************************************)
SweepBlocks ==
    RrBlocks({1}, {1}) \cup ByeBlocks({1}) \cup SdesBlocks({1}, {<<1>>})

SweepQueries == {"SetSsrcs", "RTT", "CNAME", "StatisticsReceived"}

InitSweep == Init /\ cfg = AllObservers

NextSweep ==
    \/ NetSteps
    \/ \E blk \in SweepBlocks : ParseBlock(blk)
    \/ SdesCallback
    \/ SdesNext
    \/ \E op \in SweepQueries : Enter("query", op)
    \/ Enter("timer", "UpdateRTCPReceiveInformationTimers")
    \/ SetSsrcs("query", 1, {1})
    \/ RTT("query", 1)
    \/ CNAME("query", 1)
    \/ StatisticsReceived("query")
    \/ UpdateRTCPReceiveInformationTimers("timer")
    \/ TickInterval

SpecSweep == InitSweep /\ [][NextSweep]_vars

(***************************************************************************)
(* SpecRtt: Receiver Reports of one remote party whose report blocks yield *)
(* round-trip times of 0..MaxRttMs ms, or none (last_sr = 0), at a sending *)
(* and at a receive-only endpoint.                                         *)
(***************************************************************************)
ReceiverOnly == [AllObservers EXCEPT !.receiver_only = TRUE]

InitRtt == Init /\ cfg \in {AllObservers, ReceiverOnly}

\* every report-block information can take another sample
SamplesLeft ==
    \A k \in DOMAIN rcv.receivedReportBlockMap :
        rcv.receivedReportBlockMap[k].numAverageCalcs < MaxSamples

NextRtt ==
    \/ NetSteps
    \/ \E rtt_ms \in 0..MaxRttMs : SamplesLeft /\ ParseBlock(RttReport(1, 1, rtt_ms))
    \/ \E blk \in RrBlocks({1}, {1}) : ParseBlock(blk)
    \/ Enter("query", "SetSsrcs")
    \/ SetSsrcs("query", 1, {1})

SpecRtt == InitRtt /\ [][NextRtt]_vars

(***************************************************************************)
(* SpecAvg: the running average.  HandleReportBlock is applied to report   *)
(* blocks of one remote party about one source, each yielding a round-trip *)
(* time of 1..MaxAvgRttMs ms, up to MaxAvgSamples times.                   *)
(***************************************************************************)
SampleTaken(rtt_ms) ==
    LET rb == Head(RttReport(1, 1, rtt_ms).rbs)
        c == HandleReportBlock([rcv |-> rcv, pi |-> NewPacketInformation], rb, 1)
    IN  /\ net.pc = "idle"
        /\ CanEnter("session", "net")
        /\ \A k \in DOMAIN rcv.receivedReportBlockMap :
               rcv.receivedReportBlockMap[k].numAverageCalcs < MaxAvgSamples
        /\ rcv' = c.rcv
        /\ hist' = [hist EXCEPT !.sum = @ + SumOfSamples(rcv, <<rb>>)]
        /\ ev' = [Ev("net", "HandleReportBlock", rtt_ms, "void", <<>>)
                     EXCEPT !.locks = {"session"}]
        /\ UNCHANGED <<stats_callback, cfg, now, lock, net, call>>

InitAvg == Init /\ cfg = AllObservers

NextAvg ==
    \/ \E rtt_ms \in 1..MaxAvgRttMs : SampleTaken(rtt_ms)
    \/ Enter("query", "SetSsrcs")
    \/ SetSsrcs("query", 1, {1})

SpecAvg == InitAvg /\ [][NextAvg]_vars

(***************************************************************************)
(* SpecFeedback: TMMBR, TMMBN and FIR blocks of a party that may or may    *)
(* not have reported before, and the bounding set read back.               *)
(***************************************************************************)
FeedbackBlocks ==
    RrBlocks({1}, {}) \cup TmmbBlocks({"TMMBR"}, {1}, {0}, {1}, {1})
        \cup TmmbBlocks({"TMMBN"}, {1}, {0}, {1}, {1, 2})
        \cup FirBlocks({1}, {1}, {0})

\* the counters and sequences that feedback blocks extend can still grow
FeedbackLeft ==
    /\ rcv.fir_packets < MaxFir
    /\ \A s \in DOMAIN rcv.receivedInfoMap :
           Len(rcv.receivedInfoMap[s].tmmbn) < MaxTmmbn

NextFeedback ==
    \/ NetSteps
    \/ \E blk \in FeedbackBlocks : FeedbackLeft /\ ParseBlock(blk)
    \/ UpdateTmmbr
    \/ \E op \in {"SetSsrcs", "SetRemoteSSRC", "BoundingSet"} : Enter("query", op)
    \/ SetSsrcs("query", 1, {1})
    \/ SetRemoteSSRC("query", 1)
    \/ BoundingSet("query")

InitFeedback == Init /\ cfg = AllObservers

SpecFeedback == InitFeedback /\ [][NextFeedback]_vars

(***************************************************************************)
(* SpecSilence: two parties that report and ask for a bitrate limit, then  *)
(* fall silent, and the sweep of the receive informations, while the clock *)
(* moves by five report intervals at once.                                 *)
(***************************************************************************)
SilenceBlocks ==
    RrBlocks({1, 2}, {}) \cup TmmbBlocks({"TMMBR"}, {1}, {0}, {1}, {1})

InitSilence == Init /\ cfg = AllObservers

NextSilence ==
    \/ NetSteps
    \/ \E blk \in SilenceBlocks : ParseBlock(blk)
    \/ UpdateTmmbr
    \/ Enter("query", "SetSsrcs")
    \/ Enter("timer", "UpdateRTCPReceiveInformationTimers")
    \/ SetSsrcs("query", 1, {1})
    \/ UpdateRTCPReceiveInformationTimers("timer")
    \/ TickInterval

SpecSilence == InitSilence /\ [][NextSilence]_vars

(***************************************************************************)
(* SpecTwice: whole datagrams of blocks that parse, fed one after the      *)
(* other, so that the same datagram comes twice in a row.                  *)
(***************************************************************************)
\* HandleSDES, lines 760-773, on the chunks left
RECURSIVE StoreChunks(_, _)
StoreChunks(r, chunks) ==
    IF chunks = <<>> THEN r ELSE StoreChunks(StoreChunk(r, Head(chunks)), Tail(chunks))

\* The loop of ParseCompoundPacket (lines 305-387) over blocks whose headers
\* parse.
RECURSIVE ParseBlocksOf(_, _)
ParseBlocksOf(c, blocks) ==
    IF blocks = <<>> THEN c
    ELSE LET blk == Head(blocks)
             c1 == DispatchBlock([c EXCEPT !.rcv = FirstPacketTime(@)], blk)
             c2 == IF blk.type = "SDES" /\ blk.ok /\ blk.chunks # <<>>
                   THEN AddFlag([c1 EXCEPT !.rcv = StoreChunks(@, Tail(blk.chunks))],
                                "kRtcpSdes")
                   ELSE c1
         IN  ParseBlocksOf(c2, Tail(blocks))

\* ParseCompoundPacket, lines 299-405: the store after the datagram
ParseCompoundPacket(r, blocks) ==
    SkippedWarning(ParseBlocksOf([rcv |-> r, pi |-> NewPacketInformation], blocks).rcv)

TwiceSenderInfos ==
    {[ntp_secs |-> s, ntp_frac |-> 0, rtp_timestamp |-> 9,
      packet_count |-> 1, octet_count |-> 1] : s \in {7, 8}}

TwiceBlocks ==
    {Block("SR", TRUE, 1, <<>>, <<>>, si) : si \in TwiceSenderInfos}
        \cup {JitterReport(1, 1, j, 0) : j \in {1, 2}}
        \cup {Block("SDES", TRUE, 0, <<>>, <<[ssrc |-> 1, cname |-> <<n>>]>>,
                     NoSenderInfo) : n \in {1, 2}}
        \cup ByeBlocks({1})
        \cup NackBlocks({1}, {1}, {<<1, 2>>})

\* the datagrams: one or two blocks
Datagrams == {<<b>> : b \in TwiceBlocks} \cup (TwiceBlocks \X TwiceBlocks)

\* IncomingPacket (lines 118-130) on a datagram all of whose blocks parse.
\* None of the blocks fed sets kRtcpTmmbr, so that the callbacks that follow
\* the parse leave the store alone.
DatagramFed(datagram) ==
    /\ net.pc = "idle"
    /\ CanEnter("session", "net")
    /\ rcv.nack_stats.requests <= MaxNackRequests
    /\ rcv' = ParseCompoundPacket(rcv, datagram)
    /\ hist' = [hist EXCEPT !.nacks = rcv.nack_requests,
                            !.again = ev.op = "IncomingPacket" /\ ev.arg = datagram]
    /\ ev' = [Ev("net", "IncomingPacket", datagram, "true", <<>>)
                 EXCEPT !.locks = {"session"}]
    /\ UNCHANGED <<stats_callback, cfg, now, lock, net, call>>

InitTwice == Init /\ cfg = AllObservers

NextTwice ==
    \/ \E datagram \in Datagrams : DatagramFed(datagram)
    \/ \E op \in {"SetSsrcs", "SetRemoteSSRC"} : Enter("query", op)
    \/ SetSsrcs("query", 1, {1})
    \/ SetRemoteSSRC("query", 1)

SpecTwice == InitTwice /\ [][NextTwice]_vars

(***************************************************************************)
(* SpecCname: SDES chunks with names shorter than, as long as and longer   *)
(* than the buffer holds, BYE blocks, and the name read back.              *)
(***************************************************************************)
\* names of 0..RTCP_CNAME_SIZE bytes
CnameNames == SeqsUpTo({1, 2}, RTCP_CNAME_SIZE)

CnameBlocks == SdesBlocks({1}, CnameNames) \cup ByeBlocks({1})

InitCname == Init /\ cfg = AllObservers

NextCname ==
    \/ NetSteps
    \/ \E blk \in CnameBlocks : ParseBlock(blk)
    \/ SdesCallback
    \/ SdesNext
    \/ Enter("query", "CNAME")
    \/ \E remoteSSRC \in {1, 2} : CNAME("query", remoteSSRC)

SpecCname == InitCname /\ [][NextCname]_vars

(***************************************************************************)
(* SpecWrap: report blocks whose last_sr lies before and after the local   *)
(* compact NTP time (the compact clock has wrapped since the report was    *)
(* sent), with and without holding delay.                                  *)
(***************************************************************************)
\* last_sr: shortly before the local time, the greatest and the least
\* compact time, and shortly after the local time
WrapLastSrs ==
    {(CompactNtpAt(1) - 66) % CompactNtpModulus, CompactNtpModulus - 1, 1,
     (CompactNtpAt(MaxTime) + 66) % CompactNtpModulus}

\* delay_since_last_sr: none, a second, and nearly the whole range
WrapDelays == {0, 65536, CompactNtpModulus - 1}

\* no report-block information has taken a sample yet (the first sample
\* enters the average as it is, lines 568-570)
NoSampleYet ==
    \A k \in DOMAIN rcv.receivedReportBlockMap :
        rcv.receivedReportBlockMap[k].numAverageCalcs = 0

InitWrap == Init /\ cfg = AllObservers

NextWrap ==
    \/ NetSteps
    \/ \E last_sr \in WrapLastSrs, delay \in WrapDelays :
           NoSampleYet /\ ParseBlock(DelayReport(1, 1, last_sr, delay))
    \/ Enter("query", "SetSsrcs")
    \/ SetSsrcs("query", 1, {1})
    \/ Tick

SpecWrap == InitWrap /\ [][NextWrap]_vars

(***************************************************************************)
(* SpecForeignSr: Sender Reports with report blocks, from the remote party *)
(* and from another one, against a moving clock.                           *)
(***************************************************************************)
ForeignSrBlocks ==
    {Block("SR", TRUE, s, rbs, <<>>, si) :
        s \in Ssrcs, rbs \in SeqsUpTo(ReportBlocks({1}), 1), si \in SenderInfos}

\* the last moment at which the clock of SpecForeignSr still advances
ForeignSrTime == 2

InitForeignSr == Init /\ cfg = AllObservers

NextForeignSr ==
    \/ NetSteps
    \/ \E blk \in ForeignSrBlocks : ParseBlock(blk)
    \/ \E op \in {"SetSsrcs", "SetRemoteSSRC"} : Enter("query", op)
    \/ SetSsrcs("query", 1, {1})
    \/ SetRemoteSSRC("query", 1)
    \/ now <= ForeignSrTime /\ Tick

SpecForeignSr == InitForeignSr /\ [][NextForeignSr]_vars

(***************************************************************************)
(* SpecFir: Full Intra Requests of a party with a ReceiveInfo and of one   *)
(* without, about our media stream and about another, against the clock.   *)
(***************************************************************************)
FirSpecBlocks == RrBlocks({1}, {}) \cup FirBlocks(Ssrcs, Ssrcs, {0, 1})

InitFir == Init /\ cfg = AllObservers

NextFir ==
    \/ NetSteps
    \/ \E blk \in FirSpecBlocks : rcv.fir_packets < MaxFir /\ ParseBlock(blk)
    \/ Enter("query", "SetSsrcs")
    \/ SetSsrcs("query", 1, {1})
    \/ Tick

SpecFir == InitFir /\ [][NextFir]_vars

(***************************************************************************)
(* SpecWarn: datagrams with blocks that are skipped, against a clock that  *)
(* jumps past the interval between two warnings.                           *)
(***************************************************************************)
WarnBlocks == RrBlocks({1}, {}) \cup Rejected({"RR"}) \cup {UnknownBlock}

InitWarn == Init /\ cfg = AllObservers

NextWarn ==
    \/ NetSteps
    \/ \E blk \in WarnBlocks : ParseBlock(blk)
    \/ Tick
    \/ TickInterval

SpecWarn == InitWarn /\ [][NextWarn]_vars

(***************************************************************************)
(* SpecDispatch: datagrams of every kind of block the dispatcher reacts    *)
(* to, with all observers and, in receiver-only mode, with none.           *)
(***************************************************************************)
DispatchBlocks ==
    {JitterReport(1, 1, 0, 0),
     FeedbackBlock("SR_REQ", 1, 0, <<>>),
     FeedbackBlock("PLI", 1, 1, <<>>),
     FeedbackBlock("SLI", 1, 1, <<1>>),
     FeedbackBlock("RPSI", 1, 1, <<1>>),
     FeedbackBlock("REMB", 1, 0, <<1>>),
     FeedbackBlock("TFB", 1, 1, <<>>)}
        \cup NackBlocks({1}, {1}, {<<1>>})

\* the blocks whose items are requests
DispatchRequests ==
    TmmbBlocks({"TMMBR"}, {1}, {0}, {1}, {1}) \cup FirBlocks({2}, {1}, {0})

NoObservers ==
    [receiver_only |-> TRUE, packet_type_counter_observer |-> TRUE,
     bandwidth_observer |-> FALSE, intra_frame_observer |-> FALSE,
     transport_feedback_observer |-> FALSE]

InitDispatch == Init /\ cfg \in {AllObservers, NoObservers}

\* the counters of the store can take another datagram
CountersLeft ==
    /\ rcv.fir_packets < MaxFir
    /\ rcv.pli_packets < MaxPli
    /\ rcv.nack_stats.requests < MaxNackRequests

NextDispatch ==
    \/ NetSteps
    \/ \E blk \in DispatchBlocks : CountersLeft /\ ParseBlock(blk)
    \/ \E blk \in DispatchRequests : CountersLeft /\ ParseBlock(blk)
    \/ UpdateTmmbr
    \/ \E op \in {"SetSsrcs", "RegisterRtcpStatisticsCallback"} : Enter("query", op)
    \/ SetSsrcs("query", 1, {1})
    \/ RegisterRtcpStatisticsCallback("query", 1)

SpecDispatch == InitDispatch /\ [][NextDispatch]_vars

(***************************************************************************)
(* SpecSnapshot: picture loss indications about one of two media streams   *)
(* while another thread moves main_ssrc from one to the other.             *)
(***************************************************************************)
SnapshotBlocks ==
    {FeedbackBlock("PLI", 1, m, <<>>) : m \in Ssrcs}
        \cup {FeedbackBlock("TFB", 1, m, <<>>) : m \in Ssrcs}

InitSnapshot == Init /\ cfg = AllObservers

NextSnapshot ==
    \/ NetSteps
    \/ \E blk \in SnapshotBlocks : CountersLeft /\ ParseBlock(blk)
    \/ Enter("query", "SetSsrcs")
    \/ \E s \in Ssrcs : SetSsrcs("query", s, {s})

SpecSnapshot == InitSnapshot /\ [][NextSnapshot]_vars

(***************************************************************************)
(* SpecSeqTimeout: the sequence-number timeout while two remote parties    *)
(* report on the same local stream and the clock moves by whole silences.  *)
(***************************************************************************)
SeqTimeoutBlocks == RrBlocks(Ssrcs, {1})

InitSeqTimeout == Init /\ cfg = AllObservers

NextSeqTimeout ==
    \/ NetSteps
    \/ \E blk \in SeqTimeoutBlocks : ParseBlock(blk)
    \/ Enter("query", "SetSsrcs")
    \/ Enter("timer", "RtcpRrSequenceNumberTimeout")
    \/ SetSsrcs("query", 1, {1})
    \/ \E i \in 1..MaxInterval : RtcpRrSequenceNumberTimeout("timer", i)
    \/ TickInterval

SpecSeqTimeout == InitSeqTimeout /\ [][NextSeqTimeout]_vars

(***************************************************************************)
(* SpecReplace: the statistics callback is replaced, or removed, by one    *)
(* thread while datagrams with SDES chunks and report blocks come in on    *)
(* another.                                                                *)
(***************************************************************************)
ReplaceBlocks == {JitterReport(1, 1, 0, 0)} \cup SdesBlocks({1}, {<<1>>})

StatsCallbacks == 0..NumCallbacks

InitReplace == Init /\ cfg = AllObservers

NextReplace ==
    \/ NetSteps
    \/ \E blk \in ReplaceBlocks : ParseBlock(blk)
    \/ SdesCallback
    \/ SdesNext
    \/ \E op \in {"SetSsrcs", "RegisterRtcpStatisticsCallback"} : Enter("query", op)
    \/ SetSsrcs("query", 1, {1})
    \/ \E callback \in StatsCallbacks : RegisterRtcpStatisticsCallback("query", callback)

SpecReplace == InitReplace /\ [][NextReplace]_vars

(***************************************************************************)
(* Properties.                                                             *)
(***************************************************************************)

\* The step examines an empty datagram, or the first common header of a
\* datagram and finds it corrupt.
FirstHeaderExamined ==
    /\ net.pos = 0
    /\ ev'.thread = "net"
    /\ ev'.op \in {"Parse", "IncomingPacket"}
    /\ ev'.arg \in {"EMPTY", "BADHDR"}

\* C1: IncomingPacket on an empty datagram, or on one whose first common
\* header fails to parse, returns false, leaves every field of the session
\* store (and the registered statistics callback) as it was, and has invoked
\* no callback since it was called.
C1_FirstHeaderRejected ==
    [][FirstHeaderExamined =>
          /\ ev'.op = "IncomingPacket"
          /\ ev'.ret = "false"
          /\ rcv' = rcv
          /\ stats_callback' = stats_callback
          /\ ev'.cbs = <<>>
          /\ ~net.dirty
          /\ net' = IdleNet
          /\ \A l \in Locks : lock'[l] # "net"]_vars

\* A datagram was rejected for its first header by a receiver whose store
\* already holds report-block state.
C1_Witness ==
    /\ ev.op = "IncomingPacket"
    /\ ev.arg = "BADHDR"
    /\ ev.ret = "false"
    /\ DOMAIN rcv.receivedReportBlockMap # {}
    /\ rcv.num_skipped_packets = 0

\* The step examines a later common header of the datagram and finds it corrupt.
LaterHeaderFails ==
    /\ net.pc = "loop"
    /\ net.pos > 0
    /\ ev'.thread = "net"
    /\ ev'.op \in {"Parse", "IncomingPacket"}
    /\ ev'.arg = "BADHDR"

\* the store without the checkpoint of the skipped-blocks warning
SessionState(r) == [r EXCEPT !.last_skipped_packets_warning = 0]

\* C2: when the k-th common header (k > 1) fails to parse, the store keeps
\* what blocks 1..k-1 made of it and num_skipped_packets grows by exactly 1;
\* from then on no further block of the datagram is handled, the
\* packet information gathered from blocks 1..k-1 is what the observers are
\* given, and IncomingPacket returns true.
C2_LaterHeaderStopsParse ==
    [][/\ LaterHeaderFails =>
            /\ ev'.op = "Parse"
            /\ rcv' = [rcv EXCEPT !.num_skipped_packets = @ + 1]
            /\ net'.pi = net.pi
            /\ net'.pc = "after_loop"
            /\ net'.bad_at = net.pos + 1
       /\ net.bad_at # 0 =>
            /\ ~(ev'.thread = "net" /\ ev'.op \in {"Parse", "HandleSDES"})
            /\ ev'.thread = "net" => SessionState(rcv') = SessionState(rcv)
            /\ net'.pc # "idle" => net'.pi = net.pi /\ net'.bad_at = net.bad_at
            /\ ev'.thread = "net" /\ ev'.op = "IncomingPacket" => ev'.ret = "true"
            /\ ev'.thread = "net" /\ net.pc = "callbacks" =>
                  ev'.cbs = DispatchCallbacks(net.pi, {})
            /\ ev'.thread = "net" /\ net.pc = "stats_lock" /\ stats_callback # 0 =>
                  ev'.cbs = StatisticsCallbacks(net.pi.report_blocks, {"feedback"})
      ]_vars

\* The header after an RR with an accepted report block was corrupt, and the
\* report block has been handed to the statistics callback.
C2_Witness ==
    /\ net.bad_at > 1
    /\ net.pc = "stats_cb"
    /\ ev.cbs # <<>>
    /\ rcv.num_skipped_packets = 1
    /\ DOMAIN rcv.receivedReportBlockMap # {}

\* C3: no observer sink is invoked while the invoking thread is inside the
\* session critical section or the feedback critical section.
C3_NoCallbackUnderLock ==
    \A i \in 1..Len(ev.cbs) : ev.cbs[i].held = {}

\* the critical sections t is waiting to enter
Wants(t) ==
    IF t = "net"
    THEN IF net.calling # "none" THEN LocksOf(net.calling)
         ELSE IF net.pc \in {"parse_lock", "trigger", "snapshot"} THEN {"session"}
         ELSE IF net.pc \in {"sdes_lock", "stats_lock"} THEN {"feedback"}
         ELSE {}
    ELSE IF call[t] = "none" THEN {} ELSE LocksOf(call[t]) \ Held(t)

\* t is blocked on a critical section that u is inside
WaitsFor(t, u) == \E l \in Wants(t) : lock[l] = u /\ ~CanEnter(l, t)

Deadlocked ==
    \E t \in Threads :
       \/ WaitsFor(t, t)
       \/ \E u \in Threads : WaitsFor(t, u) /\ WaitsFor(u, t)
       \/ \E u, v \in Threads : WaitsFor(t, u) /\ WaitsFor(u, v) /\ WaitsFor(v, t)

\* C4: with the ingestion thread, a query thread and the timer thread running
\* and observers calling public operations from inside their callbacks, no
\* reachable state has a cycle of threads each blocked on a critical section
\* that the next one is inside.
C4_NoDeadlock == ~Deadlocked

\* An observer called under the feedback lock is calling back into the
\* receiver and is blocked on the session lock, which a query thread holds.
C4_Witness ==
    /\ net.pc = "stats_cb"
    /\ net.calling # "none"
    /\ WaitsFor("net", "query")

\* the ingestion thread is between the first and the last block of a datagram
InDatagram == net.pc \in {"loop", "sdes_lock", "sdes_cb"}

\* C5: while a datagram is being parsed no other thread runs an operation on
\* the session store, and no block of the datagram is handled after a
\* callback has fired for it.
C5_DatagramAtomic ==
    [][/\ InDatagram /\ ev'.thread # "net" =>
            rcv' = rcv /\ ev'.op \in {"Enter", "RegisterRtcpStatisticsCallback"}
       /\ ev'.thread = "net" /\ ev'.op = "Parse" => ~net.fired]_vars

\* C6: every step that changes the session store is taken by a thread that is
\* inside the session critical section, and no other thread is inside it.
C6_MutationUnderSessionLock ==
    [][rcv' # rcv =>
          /\ "session" \in ev'.locks
          /\ lock.session \in {"none", ev'.thread}]_vars

\* The query thread changed the store while the ingestion thread was waiting
\* for the session lock.
C6_Witness ==
    /\ net.pc = "parse_lock"
    /\ ev.thread = "query"
    /\ ev.op = "SetSsrcs"
    /\ rcv.main_ssrc = 1
    /\ DOMAIN rcv.receivedInfoMap # {}

\* C7 (as the code has it): RtcpRrTimeout returns false when
\* last_received_rr_ms is 0, which is the case exactly when no report block
\* has been accepted since construction or since its last true result;
\* otherwise it returns true exactly when now - last_received_rr_ms is more
\* than 3 intervals.  A true result zeroes the checkpoint, a false one leaves it.
C7_RrTimeout ==
    [][ev'.op = "RtcpRrTimeout" =>
          LET last == rcv.lastReceivedRrMs
          IN  /\ (last = 0) = (~hist.accepted \/ hist.rr > 0)
              /\ last = 0 => ev'.ret = "false"
              /\ last # 0 => ((ev'.ret = "true") = (now - last > 3 * ev'.arg))
              /\ ev'.ret = "true" => rcv'.lastReceivedRrMs = 0
              /\ ev'.ret = "false" => rcv'.lastReceivedRrMs = last]_vars

\* A poll after the timeout was reported: a report block has been accepted
\* and the clock is more than 3 intervals on, yet the result is false.
C7_Witness ==
    /\ ev.op = "RtcpRrTimeout"
    /\ ev.ret = "false"
    /\ hist.accepted
    /\ hist.rr = 1
    /\ now > 3 * ev.arg

\* C7 as stated: false when no report block has ever been accepted, otherwise
\* true exactly when now - last_received_rr_ms is more than 3 intervals.
C7_AsStated ==
    [][ev'.op = "RtcpRrTimeout" =>
          /\ ~hist.accepted => ev'.ret = "false"
          /\ hist.accepted =>
                ((ev'.ret = "true") = (now - rcv.lastReceivedRrMs > 3 * ev'.arg))
          /\ ev'.ret = "true" => rcv'.lastReceivedRrMs = 0
          /\ ev'.ret = "false" => rcv'.lastReceivedRrMs = rcv.lastReceivedRrMs]_vars

\* C8: since the last accepted report block, RtcpRrTimeout has returned true
\* at most once and RtcpRrSequenceNumberTimeout has returned true at most once.
C8_AtMostOneTimeout == hist.rr <= 1 /\ hist.seq <= 1

\* Both timeouts have been reported and a later poll, with the clock further
\* on, returned false.
C8_Witness ==
    /\ ev.op = "RtcpRrSequenceNumberTimeout"
    /\ ev.ret = "false"
    /\ hist.rr = 1
    /\ hist.seq = 1
    /\ now > 5

\* the step handles a block that has exactly one report block accepted
OneReportBlockAccepted ==
    /\ ev'.thread = "net"
    /\ ev'.op = "Parse"
    /\ Len(net'.pi.report_blocks) = Len(net.pi.report_blocks) + 1

\* C9: an accepted report block whose extended_high_seq_num is greater than
\* the value stored for its (source, remote) pair (0 for a new pair) sets
\* last_increased_sequence_number_ms to now, any other leaves it; and
\* RtcpRrSequenceNumberTimeout returns true exactly when the checkpoint is set
\* and more than 3 intervals old, zeroing it, so that a re-call returns false.
C9_SequenceNumberTimeout ==
    [][/\ OneReportBlockAccepted =>
            LET rb == net'.pi.report_blocks[Len(net'.pi.report_blocks)]
                key == <<rb.sourceSSRC, rb.remoteSSRC>>
                stored == IF key \in DOMAIN rcv.receivedReportBlockMap
                          THEN rcv.receivedReportBlockMap[key]
                                   .remoteReceiveBlock.extendedHighSeqNum
                          ELSE 0
            IN  rcv'.lastIncreasedSequenceNumberMs =
                    IF rb.extendedHighSeqNum > stored THEN now
                    ELSE rcv.lastIncreasedSequenceNumberMs
       /\ ev'.op = "RtcpRrSequenceNumberTimeout" =>
            LET last == rcv.lastIncreasedSequenceNumberMs
            IN  /\ (ev'.ret = "true") = (last # 0 /\ now - last > 3 * ev'.arg)
                /\ ev'.ret = "true" => rcv'.lastIncreasedSequenceNumberMs = 0
                /\ ev'.ret = "false" => rcv'.lastIncreasedSequenceNumberMs = last
      ]_vars

\* The sequence-number timeout was reported although report blocks kept
\* arriving: the later ones did not raise the sequence number.
C9_Witness ==
    /\ ev.op = "RtcpRrSequenceNumberTimeout"
    /\ ev.ret = "true"
    /\ rcv.lastReceivedRrMs > 1
    /\ hist.rr = 0

\* C10: SetRemoteSSRC(x) zeroes the stored sender info and the SR arrival NTP
\* time, and until a Sender Report whose sender SSRC is x has been processed
\* they stay zero and SenderInfoReceived returns -1, whatever Sender Reports
\* of other SSRCs arrive.
C10_SenderInfoAfterSetRemoteSSRC ==
    [][/\ ev'.op = "SetRemoteSSRC" =>
            /\ rcv'.remoteSSRC = ev'.arg
            /\ rcv'.remoteSenderInfo = ZeroSenderInfo
            /\ rcv'.lastReceivedSRNTPsecs = 0
            /\ rcv'.lastReceivedSRNTPfrac = 0
       /\ ~hist'.sr =>
            /\ rcv'.remoteSenderInfo = ZeroSenderInfo
            /\ rcv'.lastReceivedSRNTPsecs = 0
            /\ rcv'.lastReceivedSRNTPfrac = 0
       /\ ev'.op = "SenderInfoReceived" /\ ~hist.sr => ev'.ret = "-1"]_vars

\* SenderInfoReceived failed after the remote SSRC was set to 1 although
\* Sender Reports of SSRC 2 and, before the switch, of SSRC 1 were processed.
C10_Witness ==
    /\ ev.op = "SenderInfoReceived"
    /\ ev.ret = "-1"
    /\ rcv.remoteSSRC = 1
    /\ DOMAIN rcv.receivedInfoMap = {1, 2}
    /\ ~hist.sr

\* C11: NTP returns false whenever no Sender Report of the current remote SSRC
\* has been accepted, that is whenever lastReceivedSRNTPsecs is 0 (initially
\* and after every SetRemoteSSRC).
C11_NtpFailsWithoutSenderReport ==
    ev.op = "NTP" /\ rcv.lastReceivedSRNTPsecs = 0 => ev.ret = "false"

\* C12: GetAndResetXrRrRtt returns true with the stored value exactly when
\* xr_rr_rtt_ms is non-zero, and then sets it to 0; it returns false and
\* changes nothing when the value is 0; two calls with no DLRR-derived RTT
\* stored in between never both return true.
C12_XrRrRttReadOnce ==
    [][ev'.op = "GetAndResetXrRrRtt" =>
          /\ (ev'.ret = "true") = (rcv.xr_rr_rtt_ms # 0)
          /\ ev'.ret = "true" =>
                /\ ev'.arg = rcv.xr_rr_rtt_ms
                /\ rcv' = [rcv EXCEPT !.xr_rr_rtt_ms = 0]
          /\ ev'.ret = "false" => rcv' = rcv
          /\ hist.xr_read => ev'.ret = "false"
      ]_vars

\* A second read right after a successful one found nothing, although the
\* first had returned a DLRR-derived RTT.
C12_Witness ==
    /\ ev.op = "GetAndResetXrRrRtt"
    /\ ev.ret = "false"
    /\ hist.xr_read
    /\ rcv.xr_rrtr_status
    /\ now > 1

\* the step handles a BYE that parses
ByeHandled ==
    /\ ev'.thread = "net"
    /\ ev'.op = "Parse"
    /\ ev'.blk.type = "BYE"
    /\ ev'.blk.ok

\* the store holds nothing about s: no ReceiveInfo, no ReportBlockInfo keyed
\* on remote s, no CNAME slot
UnknownSsrc(r, s) ==
    /\ s \notin DOMAIN r.receivedInfoMap
    /\ \A k \in DOMAIN r.receivedReportBlockMap : k[2] # s
    /\ s \notin DOMAIN r.receivedCnameMap

\* C20 (as amended): a BYE whose sender SSRC has no ReceiveInfo, no
\* ReportBlockInfo and no CNAME slot leaves the session state as it was,
\* except xr_rr_rtt_ms, which it sets to 0.
C20_ByeOfUnknownSsrc ==
    [][ByeHandled /\ UnknownSsrc(rcv, ev'.blk.ssrc) =>
          rcv' = [FirstPacketTime(rcv) EXCEPT !.xr_rr_rtt_ms = 0]]_vars

\* A BYE of an unknown SSRC followed, in one datagram, an XR block whose DLRR
\* sub-block had stored a round-trip time, and the time is gone.
C20_Witness ==
    /\ ev.op = "Parse"
    /\ ev.blk.type = "BYE"
    /\ UnknownSsrc(rcv, ev.blk.ssrc)
    /\ "kRtcpXrDlrrReportBlock" \in net.pi.rtcpPacketTypeFlags
    /\ rcv.first_packet_time_ms > 1
    /\ rcv.xr_rr_rtt_ms = 0

\* C20 (as stated): a BYE whose sender SSRC has no ReceiveInfo, no
\* ReportBlockInfo and no CNAME slot is a no-op: the whole session state,
\* xr_rr_rtt_ms included, is the same after the BYE as before it.
C20_AsStated ==
    [][ByeHandled /\ UnknownSsrc(rcv, ev'.blk.ssrc) =>
          rcv' = FirstPacketTime(rcv)]_vars

\* the step is a sweep of the receive informations
Swept == ev'.op = "UpdateRTCPReceiveInformationTimers"

\* the parties with a ReceiveInfo that sent a BYE and nothing since
Departed == hist.bye \cap DOMAIN rcv.receivedInfoMap

\* C13 (as amended): after a BYE from an SSRC s that has a ReceiveInfo, a
\* call of UpdateRTCPReceiveInformationTimers with no intervening RTCP
\* from s removes ReceiveInfo[s] exactly when its last_time_received_ms is 0
\* at that call; otherwise the entry stays in the store.
C13_SweepAfterBye ==
    [][Swept =>
          \A s \in Departed :
              (s \notin DOMAIN rcv'.receivedInfoMap)
                  = (rcv.receivedInfoMap[s].last_time_received_ms = 0)]_vars

\* The party reported, left and stayed silent; a sweep timed it out and a
\* later sweep has removed its ReceiveInfo.
C13_Witness ==
    /\ ev.op = "UpdateRTCPReceiveInformationTimers"
    /\ ev.ret = "false"
    /\ 1 \in hist.bye
    /\ rcv.lastReceivedRrMs = 1
    /\ now > 2 * 5 * RTCP_INTERVAL_AUDIO_MS
    /\ DOMAIN rcv.receivedInfoMap = {}

\* C13 (as stated): after a BYE from an SSRC s that has a ReceiveInfo, one
\* call of UpdateRTCPReceiveInformationTimers with no intervening RTCP from
\* s removes ReceiveInfo[s] from the store.
C13_AsStated ==
    [][Swept => \A s \in Departed : s \notin DOMAIN rcv'.receivedInfoMap]_vars

\* C14: once a BYE from SSRC s has been processed, and until s is heard from
\* again, no ReportBlockInfo keyed on remote s remains under any source SSRC
\* and s has no CNAME slot: RTT(s) and CNAME(s) fail and StatisticsReceived
\* lists no block whose remoteSSRC is s.
C14_ByePurgesSender ==
    /\ \A s \in hist.bye :
          /\ \A k \in DOMAIN rcv.receivedReportBlockMap : k[2] # s
          /\ s \notin DOMAIN rcv.receivedCnameMap
    /\ ev.op \in {"RTT", "CNAME"} /\ ev.arg.remoteSSRC \in hist.bye =>
          ev.ret = "-1"
    /\ ev.op = "StatisticsReceived" =>
          \A i \in DOMAIN ev.arg : ev.arg[i].remoteSSRC \notin hist.bye

\* RTT fails for a party that had a report block accepted and a CNAME stored
\* before its BYE.
C14_Witness ==
    /\ ev.op = "RTT"
    /\ ev.ret = "-1"
    /\ ev.arg.remoteSSRC \in hist.bye
    /\ rcv.main_ssrc = 1
    /\ rcv.lastReceivedRrMs # 0
    /\ "kRtcpSdes" \in net.pi.rtcpPacketTypeFlags
    /\ net.pos = 3

\* C15: a ReceiveInfo leaves the store only in a step of
\* UpdateRTCPReceiveInformationTimers, and only when at that sweep its
\* ready_for_delete is true and its last_time_received_ms is 0;
\* ready_for_delete is set by nothing but a BYE of that SSRC, so an entry
\* that timed out without a BYE is never removed.
C15_RemovalOnlyBySweep ==
    [][\A s \in DOMAIN rcv.receivedInfoMap :
          /\ s \notin DOMAIN rcv'.receivedInfoMap =>
                /\ Swept
                /\ rcv.receivedInfoMap[s].ready_for_delete
                /\ rcv.receivedInfoMap[s].last_time_received_ms = 0
          /\ s \in DOMAIN rcv'.receivedInfoMap
                /\ rcv'.receivedInfoMap[s].ready_for_delete
                /\ ~rcv.receivedInfoMap[s].ready_for_delete =>
                ByeHandled /\ ev'.blk.ssrc = s]_vars

\* A sweep met an entry that had timed out at an earlier sweep and that no
\* BYE had marked, and left it in the store.
C15_Witness ==
    /\ ev.op = "UpdateRTCPReceiveInformationTimers"
    /\ ev.ret = "false"
    /\ 1 \in DOMAIN rcv.receivedInfoMap
    /\ rcv.receivedInfoMap[1].last_time_received_ms = 0
    /\ ~rcv.receivedInfoMap[1].ready_for_delete

\* C16: in every reachable state, every ReportBlockInfo that has taken at
\* least one RTT sample satisfies minRTT <= avgRTT <= maxRTT and minRTT > 0.
C16_RttOrdered ==
    \A k \in DOMAIN rcv.receivedReportBlockMap :
        LET info == rcv.receivedReportBlockMap[k]
        IN  info.numAverageCalcs >= 1 =>
                /\ info.minRTT <= info.avgRTT
                /\ info.avgRTT <= info.maxRTT
                /\ info.minRTT > 0

\* C17: for each ReportBlockInfo, once the first RTT sample has been taken,
\* no later sample raises minRTT or lowers maxRTT.
C17_RttExtremesMonotone ==
    [][\A k \in DOMAIN rcv.receivedReportBlockMap \cap
                 DOMAIN rcv'.receivedReportBlockMap :
          rcv.receivedReportBlockMap[k].numAverageCalcs >= 1 =>
              /\ rcv'.receivedReportBlockMap[k].minRTT
                     <= rcv.receivedReportBlockMap[k].minRTT
              /\ rcv'.receivedReportBlockMap[k].maxRTT
                     >= rcv.receivedReportBlockMap[k].maxRTT]_vars

\* C18: after n >= 1 RTT samples v1..vn applied to one ReportBlockInfo, the
\* stored avgRTT differs from round(mean(v1..vn)) by at most 1 ms.
C18_AverageNearMean ==
    \A k \in DOMAIN rcv.receivedReportBlockMap :
        LET info == rcv.receivedReportBlockMap[k]
            n == info.numAverageCalcs
            mean == (2 * hist.sum + n) \div (2 * n)
        IN  n >= 1 => info.avgRTT - mean \in -1..1

\* the five fields of a ReportBlockInfo that the RTT computation writes
RttFields(info) ==
    <<info.RTT, info.avgRTT, info.minRTT, info.maxRTT, info.numAverageCalcs>>

\* the wire fields of report block rb sent by remoteSSRC, as they are stored
WireFields(rb, remoteSSRC) ==
    [remoteSSRC |-> remoteSSRC, sourceSSRC |-> rb.source_ssrc,
     fractionLost |-> rb.fraction_lost, cumulativeLost |-> rb.cumulative_lost,
     extendedHighSeqNum |-> rb.extended_high_seq_num, jitter |-> rb.jitter,
     delaySinceLastSR |-> rb.delay_since_last_sr, lastSR |-> rb.last_sr]

\* C19: when the receiver is receiver_only, or when the report blocks of an
\* SR or RR about a registered source carry last_sr = 0, handling them leaves
\* RTT, avgRTT, minRTT, maxRTT and numAverageCalcs of the ReportBlockInfo as
\* they were (0 for a fresh entry), while the wire fields are copied.
C19_NoRttWithoutLastSr ==
    [][ev'.op = "Parse" /\ ev'.blk.type \in {"SR", "RR"} /\ ev'.blk.ok =>
          LET rbs == ev'.blk.rbs
              old == rcv.receivedReportBlockMap
              new == rcv'.receivedReportBlockMap
          IN  \A i \in DOMAIN rbs :
                  LET key == <<rbs[i].source_ssrc, ev'.blk.ssrc>>
                      same == {j \in DOMAIN rbs :
                                  rbs[j].source_ssrc = rbs[i].source_ssrc}
                  IN  /\ rbs[i].source_ssrc \in rcv.registered_ssrcs
                      /\ cfg.receiver_only \/ \A j \in same : rbs[j].last_sr = 0
                      =>
                      /\ key \in DOMAIN new
                      /\ RttFields(new[key]) =
                             RttFields(IF key \in DOMAIN old THEN old[key]
                                       ELSE NewReportBlockInformation)
                      /\ (\A j \in same : j <= i) =>
                             new[key].remoteReceiveBlock
                                 = WireFields(rbs[i], ev'.blk.ssrc)
      ]_vars

\* A receive-only endpoint has stored a report block with a non-zero last_sr
\* and has computed no round-trip time from it.
C19_Witness ==
    /\ cfg.receiver_only
    /\ ev.op = "Parse"
    /\ <<1, 1>> \in DOMAIN rcv.receivedReportBlockMap
    /\ rcv.receivedReportBlockMap[<<1, 1>>].remoteReceiveBlock.lastSR # 0
    /\ rcv.receivedReportBlockMap[<<1, 1>>].numAverageCalcs = 0
    /\ rcv.receivedReportBlockMap[<<1, 1>>].RTT = 0

\* the step handles a TMMBR, TMMBN or FIR block that parses and whose sender
\* has no ReceiveInfo
FeedbackOfUnknownSender ==
    /\ ev'.thread = "net"
    /\ ev'.op = "Parse"
    /\ ev'.blk.type \in {"TMMBR", "TMMBN", "FIR"}
    /\ ev'.blk.ok
    /\ ev'.blk.ssrc \notin DOMAIN rcv.receivedInfoMap

\* the requests of a FIR block that target main_ssrc
RequestsToUs(r, blk) ==
    Cardinality({i \in DOMAIN blk.items : blk.items[i].ssrc = r.main_ssrc})

\* C21 (as amended): a TMMBR or TMMBN block whose sender has no ReceiveInfo
\* is dropped: no ReceiveInfo is created, the session state and the flags of
\* the datagram stay as they were.  A FIR block of such a sender creates no
\* ReceiveInfo either, but each of its requests that targets main_ssrc is
\* counted in fir_packets and sets kFir.
C21_FeedbackOfUnknownSender ==
    [][FeedbackOfUnknownSender =>
          LET n == RequestsToUs(rcv, ev'.blk)
          IN  /\ ev'.blk.ssrc \notin DOMAIN rcv'.receivedInfoMap
              /\ ev'.blk.type # "FIR" =>
                     /\ rcv' = FirstPacketTime(rcv)
                     /\ net'.pi = net.pi
              /\ ev'.blk.type = "FIR" =>
                     /\ rcv' = [FirstPacketTime(rcv) EXCEPT !.fir_packets = @ + n]
                     /\ net'.pi.rtcpPacketTypeFlags =
                            net.pi.rtcpPacketTypeFlags
                                \cup (IF n > 0 THEN {"kRtcpFir"} ELSE {})
      ]_vars

\* A TMMBR block that asks this endpoint to limit its bitrate came from a
\* party without ReceiveInfo, and nothing was stored or flagged.
C21_Witness ==
    /\ ev.op = "Parse"
    /\ ev.blk.type = "TMMBR"
    /\ ev.blk.ok
    /\ rcv.main_ssrc = 1
    /\ ev.blk.items[1].ssrc = rcv.main_ssrc
    /\ rcv.receivedInfoMap = <<>>
    /\ "kRtcpTmmbr" \notin net.pi.rtcpPacketTypeFlags

\* C21 (as stated): a TMMBR, TMMBN or FIR block whose sender has no
\* ReceiveInfo creates none, changes no session state and sets none of the
\* flags kTmmbr, kTmmbn, kFir.
C21_AsStated ==
    [][FeedbackOfUnknownSender =>
          /\ rcv' = FirstPacketTime(rcv)
          /\ (net'.pi.rtcpPacketTypeFlags \ net.pi.rtcpPacketTypeFlags)
                 \cap {"kRtcpTmmbr", "kRtcpTmmbn", "kRtcpFir"} = {}
      ]_vars

\* C22: UpdateRTCPReceiveInformationTimers returns true exactly when some
\* ReceiveInfo has last_time_received_ms > 0 and has been silent for more
\* than 5 x RTCP_INTERVAL_AUDIO_MS; each such entry stays in the store with
\* its TMMBR entries cleared and last_time_received_ms = 0, so that no entry
\* is left for which a second call at once would return true.
C22_SweepReportsSilence ==
    [][Swept =>
          LET m == rcv.receivedInfoMap
              swept == rcv'.receivedInfoMap
              Silent(info) ==
                  /\ info.last_time_received_ms > 0
                  /\ now - info.last_time_received_ms > 5 * RTCP_INTERVAL_AUDIO_MS
          IN  /\ ev'.ret = "true" <=> \E s \in DOMAIN m : Silent(m[s])
              /\ \A s \in DOMAIN m :
                     Silent(m[s]) =>
                         /\ s \in DOMAIN swept
                         /\ swept[s].tmmbr = <<>>
                         /\ swept[s].last_time_received_ms = 0
              /\ \A s \in DOMAIN swept : ~Silent(swept[s])
      ]_vars

\* The sweep has found party 1, which had asked for a bitrate limit, silent
\* while party 2 was not, and has returned true.
C22_Witness ==
    /\ ev.op = "UpdateRTCPReceiveInformationTimers"
    /\ ev.ret = "true"
    /\ rcv.main_ssrc = 1
    /\ DOMAIN rcv.receivedInfoMap = {1, 2}
    /\ rcv.receivedInfoMap[1].last_time_received_ms = 0
    /\ rcv.receivedInfoMap[1].tmmbr = <<>>
    /\ rcv.receivedInfoMap[2].last_time_received_ms > 0

\* the fields that a datagram overwrites: the remote sender info, the CNAME
\* map, and of every report-block information the wire fields and the
\* greatest jitter
Overwrites(r) ==
    [sender_info |-> r.remoteSenderInfo,
     cnames |-> r.receivedCnameMap,
     report_blocks |->
        [k \in DOMAIN r.receivedReportBlockMap |->
            <<r.receivedReportBlockMap[k].remoteReceiveBlock,
              r.receivedReportBlockMap[k].remoteMaxJitter>>]]

\* the step feeds the datagram that was fed just before
FedAgain ==
    /\ ev.op = "IncomingPacket"
    /\ ev'.op = "IncomingPacket"
    /\ ev'.arg = ev.arg

\* C23 (as amended): feeding the same valid compound datagram twice in a row
\* leaves the overwrite fields as the first feed left them, and the second
\* feed adds exactly as many NACK requests to the total as the first did, so
\* that the total is doubled when it was 0 before the first feed.
C23_FedTwice ==
    [][FedAgain =>
          /\ Overwrites(rcv') = Overwrites(rcv)
          /\ rcv'.nack_requests - rcv.nack_requests = rcv.nack_requests - hist.nacks
          /\ hist.nacks = 0 => rcv'.nack_requests = 2 * rcv.nack_requests
      ]_vars

\* A datagram with a Sender Report of the remote party and a NACK for two
\* packets of ours has been fed twice to a receiver that had counted no NACK
\* request, and four requests are counted.
C23_Witness ==
    /\ ev.op = "IncomingPacket"
    /\ hist.again
    /\ Len(ev.arg) = 2
    /\ ev.arg[1].type = "SR"
    /\ ev.arg[2].type = "NACK"
    /\ rcv.remoteSenderInfo.NTPseconds = ev.arg[1].sr.ntp_secs
    /\ hist.nacks = 2
    /\ rcv.nack_requests = 4

\* C23 (as stated): feeding the same valid compound datagram twice in a row
\* leaves the overwrite fields as the first feed left them, and the total
\* NACK request count after the second feed is twice the count after the
\* first.
C23_AsStated ==
    [][FedAgain =>
          /\ Overwrites(rcv') = Overwrites(rcv)
          /\ rcv'.nack_requests = 2 * rcv.nack_requests
      ]_vars

\* C24: in every reachable state every stored CNAME has a null byte in its
\* last place (index RTCP_CNAME_SIZE-1 of the buffer); the name an SDES chunk
\* brings is stored as its first RTCP_CNAME_SIZE-1 bytes at most, a longer
\* name is cut; a CNAME() call fails when the SSRC has no slot, and otherwise
\* succeeds and fills the buffer with the stored name and a null byte in the
\* last place.
C24_CnameTerminated ==
    /\ \A s \in DOMAIN rcv.receivedCnameMap :
           /\ Len(rcv.receivedCnameMap[s]) = RTCP_CNAME_SIZE
           /\ rcv.receivedCnameMap[s][RTCP_CNAME_SIZE] = 0
    /\ ev.op = "Parse" /\ ev.blk.type = "SDES" /\ ev.blk.ok /\ ev.blk.chunks # <<>> =>
           LET chunk == Head(ev.blk.chunks)
           IN  /\ chunk.ssrc \in DOMAIN rcv.receivedCnameMap
               /\ \A i \in 1..(RTCP_CNAME_SIZE - 1) :
                      rcv.receivedCnameMap[chunk.ssrc][i] =
                          IF i <= Len(chunk.cname) THEN chunk.cname[i] ELSE 0
    /\ ev.op = "CNAME" =>
           IF ev.arg.remoteSSRC \in DOMAIN rcv.receivedCnameMap
           THEN /\ ev.ret = "0"
                /\ Len(ev.arg.cName) = RTCP_CNAME_SIZE
                /\ ev.arg.cName[RTCP_CNAME_SIZE] = 0
                /\ ev.arg.cName = rcv.receivedCnameMap[ev.arg.remoteSSRC]
           ELSE ev.ret = "-1"

\* A name of RTCP_CNAME_SIZE-1 bytes or more had been received, and CNAME() gave
\* back its first RTCP_CNAME_SIZE-1 bytes.
C24_Witness ==
    /\ ev.op = "CNAME"
    /\ ev.ret = "0"
    /\ hist.bye = {}
    /\ \A i \in 1..(RTCP_CNAME_SIZE - 1) : ev.arg.cName[i] # 0

\* C25: for every accepted report block with last_sr # 0 at an endpoint that
\* is not receiver_only, the stored RTT is compact_ntp_to_ms of
\* (receive_time - delay_since_last_sr - last_sr) taken modulo the width of
\* the compact NTP word, with compact_ntp_to_ms(x) = (x * 1000 + 0x8000) >> 16,
\* also when the compact clock has wrapped (receive_time < last_sr).
C25_RttModular ==
    [][ev'.op = "Parse" /\ ev'.blk.type \in {"SR", "RR"} /\ ev'.blk.ok
       /\ ~cfg.receiver_only /\ Len(ev'.blk.rbs) = 1 =>
          LET rb == ev'.blk.rbs[1]
              receive_time == CompactNtp(ClockCurrentNtp)
              diff == receive_time - rb.delay_since_last_sr - rb.last_sr
              x == IF diff >= 0 THEN diff
                   ELSE IF diff + CompactNtpModulus >= 0 THEN diff + CompactNtpModulus
                   ELSE diff + 2 * CompactNtpModulus
              ms == (x \div 65536) * 1000 + ((x % 65536) * 1000 + 32768) \div 65536
          IN  rb.source_ssrc \in rcv.registered_ssrcs /\ rb.last_sr # 0 =>
                 /\ x \in 0..(CompactNtpModulus - 1)
                 /\ rcv'.receivedReportBlockMap[<<rb.source_ssrc, ev'.blk.ssrc>>].RTT = ms
      ]_vars

\* A report block whose last_sr is the last compact NTP time before the
\* clock wraps has been accepted NtpEpochSecs seconds and 1 ms after the
\* wrap, and that round-trip time has been stored for it.
C25_Witness ==
    /\ ev.op = "Parse"
    /\ ev.blk.type = "RR"
    /\ Len(ev.blk.rbs) = 1
    /\ now = 1
    /\ ev.blk.rbs[1].last_sr = CompactNtpModulus - 1
    /\ ev.blk.rbs[1].last_sr > CompactNtp(ClockCurrentNtp)
    /\ ev.blk.rbs[1].delay_since_last_sr = 0
    /\ <<1, 1>> \in DOMAIN rcv.receivedReportBlockMap
    /\ rcv.receivedReportBlockMap[<<1, 1>>].remoteReceiveBlock.lastSR
           = ev.blk.rbs[1].last_sr
    /\ rcv.receivedReportBlockMap[<<1, 1>>].RTT = NtpEpochSecs * 1000 + 1

\* the step handles a Receiver Report or Sender Report that parses and whose
\* report blocks are all about sources that are not registered
ForeignReportBlocks ==
    /\ ev'.thread = "net"
    /\ ev'.op = "Parse"
    /\ ev'.blk.type \in {"SR", "RR"}
    /\ ev'.blk.ok
    /\ ev'.blk.rbs # <<>>
    /\ \A i \in DOMAIN ev'.blk.rbs :
           ev'.blk.rbs[i].source_ssrc \notin rcv.registered_ssrcs

\* C26: a report block whose source_ssrc is not registered is dropped: no
\* ReportBlockInfo is created or changed, last_received_rr_ms and
\* last_increased_sequence_number_ms stay as they were, nothing is appended
\* to the report blocks of the packet information; of the store, the
\* Receiver Report that carries it changes only the ReceiveInfo of its
\* sender, which is created if need be and stamped with the time.
C26_ForeignReportBlockDropped ==
    [][ForeignReportBlocks =>
          LET s == ev'.blk.ssrc
              stamped == [CreateReceiveInformation(rcv.receivedInfoMap, s)
                             EXCEPT ![s].last_time_received_ms = now]
          IN  /\ rcv'.receivedReportBlockMap = rcv.receivedReportBlockMap
              /\ rcv'.lastReceivedRrMs = rcv.lastReceivedRrMs
              /\ rcv'.lastIncreasedSequenceNumberMs = rcv.lastIncreasedSequenceNumberMs
              /\ net'.pi.report_blocks = net.pi.report_blocks
              /\ rcv'.receivedInfoMap = stamped
              /\ ev'.blk.type = "RR" =>
                     rcv' = [FirstPacketTime(rcv) EXCEPT !.receivedInfoMap = stamped]
      ]_vars

\* With source 1 registered and a report block about it accepted earlier, a
\* Receiver Report brought a report block about source 2: its sender's
\* ReceiveInfo is stamped, and there is no ReportBlockInfo about source 2.
C26_Witness ==
    /\ ev.op = "Parse"
    /\ ev.blk.type = "RR"
    /\ ev.blk.ok
    /\ Len(ev.blk.rbs) = 1
    /\ ev.blk.rbs[1].source_ssrc = 2
    /\ rcv.registered_ssrcs = {1}
    /\ now > 1
    /\ rcv.lastReceivedRrMs = 1
    /\ rcv.receivedInfoMap[ev.blk.ssrc].last_time_received_ms = now
    /\ \A k \in DOMAIN rcv.receivedReportBlockMap : k[1] # 2

\* the step handles a Sender Report that parses
SenderReportHandled ==
    /\ ev'.thread = "net"
    /\ ev'.op = "Parse"
    /\ ev'.blk.type = "SR"
    /\ ev'.blk.ok

\* the sender info that a Sender Report carries, as it is stored
SenderInfoOf(blk) ==
    [NTPseconds |-> blk.sr.ntp_secs, NTPfraction |-> blk.sr.ntp_frac,
     RTPtimeStamp |-> blk.sr.rtp_timestamp,
     sendPacketCount |-> blk.sr.packet_count,
     sendOctetCount |-> blk.sr.octet_count]

\* C27: a Sender Report whose sender is not the remote SSRC leaves the
\* remote sender info and the NTP time of the last Sender Report as they
\* were and sets kRr, not kSr; a Sender Report of the remote SSRC sets kSr
\* and overwrites the sender info.  Either way the sender's ReceiveInfo is
\* there afterwards, stamped with the time, and every report block about a
\* registered source is stored and appended to the packet information.
C27_ForeignSenderReport ==
    [][SenderReportHandled =>
          LET blk == ev'.blk
              s == blk.ssrc
              set == net'.pi.rtcpPacketTypeFlags \ net.pi.rtcpPacketTypeFlags
              ours == {i \in DOMAIN blk.rbs :
                          blk.rbs[i].source_ssrc \in rcv.registered_ssrcs}
          IN  /\ IF s # rcv.remoteSSRC
                 THEN /\ rcv'.remoteSenderInfo = rcv.remoteSenderInfo
                      /\ rcv'.lastReceivedSRNTPsecs = rcv.lastReceivedSRNTPsecs
                      /\ rcv'.lastReceivedSRNTPfrac = rcv.lastReceivedSRNTPfrac
                      /\ "kRtcpRr" \in net'.pi.rtcpPacketTypeFlags
                      /\ "kRtcpSr" \notin set
                 ELSE /\ rcv'.remoteSenderInfo = SenderInfoOf(blk)
                      /\ rcv'.lastReceivedSRNTPsecs = ClockCurrentNtp.seconds
                      /\ rcv'.lastReceivedSRNTPfrac = ClockCurrentNtp.fractions
                      /\ "kRtcpSr" \in net'.pi.rtcpPacketTypeFlags
                      /\ "kRtcpRr" \notin set
              /\ s \in DOMAIN rcv'.receivedInfoMap
              /\ rcv'.receivedInfoMap[s].last_time_received_ms = now
              /\ Len(net'.pi.report_blocks)
                     = Len(net.pi.report_blocks) + Cardinality(ours)
              /\ \A i \in ours :
                     /\ <<blk.rbs[i].source_ssrc, s>> \in DOMAIN rcv'.receivedReportBlockMap
                     /\ (\A j \in ours : j <= i) =>
                            rcv'.receivedReportBlockMap[<<blk.rbs[i].source_ssrc, s>>]
                                .remoteReceiveBlock.extendedHighSeqNum
                                = blk.rbs[i].extended_high_seq_num
      ]_vars

\* After the Sender Report of the remote party 1 was stored, a Sender Report
\* of party 2 with a report block about the registered source came later:
\* the sender info is still that of party 1's report, the datagram is
\* flagged kRr only, and party 2 has a ReceiveInfo and a ReportBlockInfo.
C27_Witness ==
    /\ ev.op = "Parse"
    /\ ev.blk.type = "SR"
    /\ ev.blk.ssrc = 2
    /\ rcv.remoteSSRC = 1
    /\ hist.sr
    /\ rcv.remoteSenderInfo # ZeroSenderInfo
    /\ rcv.lastReceivedSRNTPsecs # 0
    /\ now > 1
    /\ net.pi.rtcpPacketTypeFlags = {"kRtcpRr"}
    /\ rcv.receivedInfoMap[2].last_time_received_ms = now
    /\ <<1, 2>> \in DOMAIN rcv.receivedReportBlockMap

\* the step handles a Full Intra Request block that parses
FirHandled ==
    /\ ev'.thread = "net"
    /\ ev'.op = "Parse"
    /\ ev'.blk.type = "FIR"
    /\ ev'.blk.ok

\* What a FIR block with one request does when a request of a known sender
\* is honoured exactly under the condition spaced(info).
FirOutcome(spaced(_)) ==
    LET blk == ev'.blk
        s == blk.ssrc
        req == blk.items[1]
        set == net'.pi.rtcpPacketTypeFlags \ net.pi.rtcpPacketTypeFlags
    IN  IF req.ssrc # rcv.main_ssrc
        THEN /\ rcv'.fir_packets = rcv.fir_packets
             /\ rcv'.receivedInfoMap = rcv.receivedInfoMap
             /\ "kRtcpFir" \notin set
        ELSE /\ rcv'.fir_packets = rcv.fir_packets + 1
             /\ IF s \in DOMAIN rcv.receivedInfoMap
                THEN LET info == rcv.receivedInfoMap[s]
                         after == rcv'.receivedInfoMap[s]
                     IN  IF req.seq_nr # info.last_fir_sequence_number /\ spaced(info)
                         THEN /\ "kRtcpFir" \in net'.pi.rtcpPacketTypeFlags
                              /\ after.last_fir_request_ms = now
                              /\ after.last_fir_sequence_number = req.seq_nr
                         ELSE /\ "kRtcpFir" \notin set
                              /\ rcv'.receivedInfoMap = rcv.receivedInfoMap
                ELSE /\ "kRtcpFir" \in net'.pi.rtcpPacketTypeFlags
                     /\ rcv'.receivedInfoMap = rcv.receivedInfoMap

ElapsedMoreThanMin(info) == now - info.last_fir_request_ms > RTCP_MIN_FRAME_LENGTH_MS

ElapsedAtLeastMin(info) == now - info.last_fir_request_ms >= RTCP_MIN_FRAME_LENGTH_MS

\* C28: every FIR request about main_ssrc increments fir_packets.  When the
\* requester has a ReceiveInfo, kFir is set and last_fir_request_ms and
\* last_fir_sequence_number are updated exactly when the sequence number
\* differs from the last one and more than RTCP_MIN_FRAME_LENGTH_MS have
\* passed since the last honoured request; otherwise the ReceiveInfo is
\* unchanged and kFir is not set.  Without a ReceiveInfo kFir is always set.
C28_FirRateLimited == [][FirHandled => FirOutcome(ElapsedMoreThanMin)]_vars

\* C28 as stated: the request is honoured when at least
\* RTCP_MIN_FRAME_LENGTH_MS have passed.
C28_AsStated == [][FirHandled => FirOutcome(ElapsedAtLeastMin)]_vars

\* The second request about our stream, with sequence number 1, came from
\* party 1, which has a ReceiveInfo; it was honoured at the present moment.
C28_Witness ==
    /\ ev.op = "Parse"
    /\ ev.blk.type = "FIR"
    /\ ev.blk.ssrc = 1
    /\ ev.blk.items[1] = [ssrc |-> 1, seq_nr |-> 1]
    /\ rcv.main_ssrc = 1
    /\ rcv.fir_packets = 2
    /\ 1 \in DOMAIN rcv.receivedInfoMap
    /\ rcv.receivedInfoMap[1].last_fir_sequence_number = 1
    /\ rcv.receivedInfoMap[1].last_fir_request_ms = now
    /\ "kRtcpFir" \in net.pi.rtcpPacketTypeFlags

\* the step handles a TMMBN block that parses, of a sender with a ReceiveInfo
TmmbnHandled ==
    /\ ev'.thread = "net"
    /\ ev'.op = "Parse"
    /\ ev'.blk.type = "TMMBN"
    /\ ev'.blk.ok
    /\ ev'.blk.ssrc \in DOMAIN rcv.receivedInfoMap

\* C29: after a TMMBN block of a sender with a ReceiveInfo, the tmmbn of that
\* ReceiveInfo is exactly the items of the block: what was there before is
\* replaced, so that BoundingSet returns the items of the latest block only.
C29_TmmbnReplaced ==
    [][TmmbnHandled =>
          rcv'.receivedInfoMap[ev'.blk.ssrc].tmmbn = ev'.blk.items]_vars

\* the step is the end of ParseCompoundPacket, where the warning is decided
ParseEnds == ev'.thread = "net" /\ ev'.op = "ParseReturn"

\* the step writes the warning: the time of the last warning moves
WarningEmitted == rcv'.last_skipped_packets_warning # rcv.last_skipped_packets_warning

\* C30: at the end of parsing the warning about skipped blocks is written
\* only when blocks were skipped and at least kMaxWarningLogIntervalMs have
\* passed since the last warning, and writing it sets num_skipped_packets
\* back to 0.
C30_WarningResets ==
    [][ParseEnds /\ WarningEmitted =>
          /\ rcv.num_skipped_packets > 0
          /\ now - rcv.last_skipped_packets_warning >= kMaxWarningLogIntervalMs
          /\ rcv'.num_skipped_packets = 0]_vars

\* the callbacks of lines 1107-1177 in the order of the code
DispatchOrder ==
    <<"OnRequestSendReport", "OnReceivedNack", "OnReceivedIntraFrameRequest",
      "OnReceivedSLI", "OnReceivedRPSI", "OnReceivedEstimatedBitrate",
      "OnReceivedRtcpReceiverReport", "OnReceivedRtcpReportBlocks",
      "OnTransportFeedback">>

Rank(name) == CHOOSE i \in DOMAIN DispatchOrder : DispatchOrder[i] = name

\* The callbacks of log come in the fixed order: those of UpdateTmmbr (the
\* bandwidth estimate, if any, then SetTmmbn, once), then each of the nine of
\* DispatchOrder at most once and in that order, then StatisticsUpdated only.
WellOrdered(log) ==
    LET tm == {i \in DOMAIN log : log[i] = "SetTmmbn"}
        start == IF tm = {} THEN 0 ELSE CHOOSE i \in tm : TRUE
        st == {i \in DOMAIN log : log[i] = "StatisticsUpdated"}
        mid == {i \in DOMAIN log : i > start /\ i \notin st}
    IN  /\ Cardinality(tm) <= 1
        /\ start <= 2
        /\ start = 2 => log[1] = "OnReceivedEstimatedBitrate"
        /\ \A i \in mid : \E k \in DOMAIN DispatchOrder : DispatchOrder[k] = log[i]
        /\ \A i, j \in mid : i < j => Rank(log[i]) < Rank(log[j])
        /\ \A i \in st : \A j \in DOMAIN log \ st : j < i

\* the step is one of TriggerCallbacksFromRTCPPacket that issues callbacks
Dispatches ==
    /\ ev'.thread = "net"
    /\ net.pc \in {"trigger", "callbacks", "stats_lock"}
    /\ ev'.op \in {"UpdateTmmbr", "TriggerCallbacks", "IncomingPacket"}

\* C31: the callbacks of one datagram's dispatch come in the fixed order,
\* UpdateTmmbr's first and exactly when kTmmbr is set, each of the first ten
\* at most once, and StatisticsUpdated last, once per report block.
C31_DispatchOrder ==
    [][Dispatches =>
          LET log == net.log \o Names(ev'.cbs)
              updates == \E i \in DOMAIN log : log[i] = "SetTmmbn"
              stats == {i \in DOMAIN log : log[i] = "StatisticsUpdated"}
          IN  /\ WellOrdered(log)
              /\ net.pc # "trigger" => (updates <=> HasFlag(net.pi, "kRtcpTmmbr"))
              /\ Cardinality(stats)
                    = IF net.pc = "stats_lock" /\ stats_callback # 0
                      THEN Len(net.pi.report_blocks) ELSE 0
      ]_vars

\* A datagram with a Receiver Report, a TMMBR and a NACK was dispatched to
\* the end: the bandwidth estimate, SetTmmbn, the NACK, the two report
\* callbacks and the statistics of the one report block, in this order.
C31_Witness ==
    /\ net.pc = "stats_cb"
    /\ net.log = <<"OnReceivedEstimatedBitrate", "SetTmmbn", "OnReceivedNack",
                   "OnReceivedRtcpReceiverReport", "OnReceivedRtcpReportBlocks",
                   "StatisticsUpdated">>

\* the callbacks that receiver-only mode never issues
SenderCallbacks == {"OnRequestSendReport", "OnReceivedNack", "StatisticsUpdated"}

\* the step handles a NACK block that parses
NackHandled ==
    /\ ev'.thread = "net"
    /\ ev'.op = "Parse"
    /\ ev'.blk.type = "NACK"
    /\ ev'.blk.ok

\* C32: in receiver-only mode no step of IncomingPacket calls
\* OnRequestSendReport, OnReceivedNack or StatisticsUpdated, and a NACK block
\* handled in that mode, or one about another media stream than main_ssrc,
\* leaves the NACK statistics, the NACK counters of packet_type_counter and
\* the kNack flag as they were.
C32_ReceiverOnlyIsSilent ==
    [][/\ (cfg.receiver_only /\ ev'.thread = "net") =>
              \A i \in DOMAIN ev'.cbs : ev'.cbs[i].name \notin SenderCallbacks
       /\ (NackHandled /\ (cfg.receiver_only \/ ev'.blk.media_ssrc # rcv.main_ssrc)) =>
              /\ rcv'.nack_stats = rcv.nack_stats
              /\ rcv'.nack_packets = rcv.nack_packets
              /\ rcv'.nack_requests = rcv.nack_requests
              /\ rcv'.unique_nack_requests = rcv.unique_nack_requests
              /\ net'.pi.nackSequenceNumbers = net.pi.nackSequenceNumbers
              /\ net'.pi.rtcpPacketTypeFlags = net.pi.rtcpPacketTypeFlags
      ]_vars

\* In receiver-only mode, with a statistics callback registered and
\* main_ssrc set, a datagram brought a rapid resynchronisation request, a
\* report block about our stream and then a NACK about it: nothing of the
\* NACK is counted.
C32_Witness ==
    /\ cfg.receiver_only
    /\ stats_callback # 0
    /\ ev.op = "Parse"
    /\ ev.blk.type = "NACK"
    /\ ev.blk.media_ssrc = rcv.main_ssrc
    /\ ev.blk.items # <<>>
    /\ "kRtcpSrReq" \in net.pi.rtcpPacketTypeFlags
    /\ Len(net.pi.report_blocks) = 1
    /\ rcv.nack_packets = 0
    /\ rcv.nack_stats.requests = 0

\* the step handles an extended report that parses and has a DLRR sub-block
DlrrHandled ==
    /\ ev'.thread = "net"
    /\ ev'.op = "Parse"
    /\ ev'.blk.type = "XR"
    /\ ev'.blk.ok
    /\ Len(ev'.blk.dlrrs) = 1

\* What the one DLRR sub-block of the extended report does, when the flag
\* kXrDlrrReportBlock is set under the condition flagged(rti).
DlrrOutcome(flagged(_)) ==
    LET rti == ev'.blk.dlrrs[1]
        computes == rcv.xr_rrtr_status /\ rti.last_rr # 0
        flag_before == "kRtcpXrDlrrReportBlock" \in net.pi.rtcpPacketTypeFlags
        flag_after == "kRtcpXrDlrrReportBlock" \in net'.pi.rtcpPacketTypeFlags
    IN  IF rti.ssrc \notin rcv.registered_ssrcs
        THEN /\ rcv'.xr_rr_rtt_ms = rcv.xr_rr_rtt_ms
             /\ net'.pi.xr_dlrr_item = net.pi.xr_dlrr_item
             /\ flag_after = flag_before
        ELSE /\ net'.pi.xr_dlrr_item
             /\ flag_after = (flag_before \/ flagged(rti))
             /\ rcv'.xr_rr_rtt_ms
                   = IF computes
                     THEN CompactNtpRttToMs(
                              (CompactNtp(ClockCurrentNtp) - rti.delay_since_last_rr
                                  - rti.last_rr) % CompactNtpModulus)
                     ELSE rcv.xr_rr_rtt_ms

FlaggedWhenComputed(rti) == rcv.xr_rrtr_status /\ rti.last_rr # 0

FlaggedWhenRegistered(rti) == TRUE

\* C33: a DLRR sub-block about an unregistered SSRC changes nothing.  One
\* about a registered SSRC marks the datagram as carrying a DLRR item; the
\* flag kXrDlrrReportBlock is set and xr_rr_rtt_ms is overwritten with the
\* round-trip time (computed modulo the compact NTP word) only when
\* xr_rrtr_status is enabled and last_rr is not 0, and otherwise both stay.
C33_DlrrSubBlock == [][DlrrHandled => DlrrOutcome(FlaggedWhenComputed)]_vars

\* C33 as stated: the flag is set for every sub-block about a registered SSRC.
C33_AsStated == [][DlrrHandled => DlrrOutcome(FlaggedWhenRegistered)]_vars

\* With the XR round-trip time enabled, a DLRR sub-block about the registered
\* SSRC answered the report sent at time 1: the flag is set and the
\* round-trip time is the time passed since.
C33_Witness ==
    /\ ev.op = "Parse"
    /\ ev.blk.type = "XR"
    /\ Len(ev.blk.dlrrs) = 1
    /\ ev.blk.dlrrs[1].ssrc \in rcv.registered_ssrcs
    /\ ev.blk.dlrrs[1].last_rr # 0
    /\ rcv.xr_rrtr_status
    /\ "kRtcpXrDlrrReportBlock" \in net.pi.rtcpPacketTypeFlags
    /\ net.pi.xr_dlrr_item
    /\ now = 3
    /\ rcv.xr_rr_rtt_ms = 2

\* the step takes thread t into the session critical section from outside it
EntersSession(t) ==
    /\ ev'.thread = t
    /\ "session" \in ev'.locks
    /\ lock.session # t

\* C34: the two critical sections nest in one direction only: no thread
\* enters the session critical section while it is inside the feedback one.
C34_LockOrder ==
    [][\A t \in Threads : EntersSession(t) => lock.feedback # t]_vars

\* the callbacks that are handed the local SSRC
LocalSsrcCallbacks ==
    {"OnReceivedIntraFrameRequest", "OnReceivedSLI", "OnReceivedRPSI"}

\* C35: with SetSsrcs running on another thread, the SSRC snapshot taken for
\* the dispatch is the main_ssrc the blocks of the datagram were matched
\* against: it is what OnReceivedIntraFrameRequest is handed, and what the
\* transport feedback is filtered by.
C35_SnapshotMatchesParse ==
    [][(ev'.thread = "net" /\ net.pc = "callbacks") =>
          /\ net.local_ssrc = net.parse_ssrc
          /\ \A i \in DOMAIN ev'.cbs :
                 /\ ev'.cbs[i].name = "OnReceivedIntraFrameRequest"
                       => ev'.cbs[i].arg = net.parse_ssrc
                 /\ ev'.cbs[i].name = "OnTransportFeedback"
                       => ev'.cbs[i].arg \in {net.parse_ssrc} \cup net.registered_ssrcs
      ]_vars

\* C36: the mark that a BYE sets on a ReceiveInfo is never cleared.  A marked
\* entry leaves the store only at a sweep that finds it without a time of
\* last reception; a sweep that finds it silent for more than five audio
\* report intervals zeroes that time, so that the next sweep removes it; any
\* other step, Sender and Receiver Reports of the party included, keeps the
\* entry and its mark.
C36_MarkStays ==
    [][\A s \in DOMAIN rcv.receivedInfoMap :
          LET info == rcv.receivedInfoMap[s]
          IN  info.ready_for_delete =>
                 IF Swept /\ info.last_time_received_ms = 0
                 THEN s \notin DOMAIN rcv'.receivedInfoMap
                 ELSE /\ s \in DOMAIN rcv'.receivedInfoMap
                      /\ rcv'.receivedInfoMap[s].ready_for_delete
                      /\ Swept =>
                            rcv'.receivedInfoMap[s].last_time_received_ms
                              = IF now - info.last_time_received_ms
                                      > 5 * RTCP_INTERVAL_AUDIO_MS
                                THEN 0 ELSE info.last_time_received_ms
      ]_vars

\* The party sent a BYE and then reported again, so that its marked entry
\* had a time of last reception; it then fell silent, and this sweep has
\* zeroed that time and left the entry, still marked, for the next one.
C36_Witness ==
    /\ ev.op = "UpdateRTCPReceiveInformationTimers"
    /\ ev.ret = "true"
    /\ 1 \notin hist.bye
    /\ 1 \in DOMAIN rcv.receivedInfoMap
    /\ rcv.receivedInfoMap[1].ready_for_delete
    /\ rcv.receivedInfoMap[1].last_time_received_ms = 0
    /\ now > 5 * RTCP_INTERVAL_AUDIO_MS

\* The value stored for the (source, remote) pair of a report block entry
\* before the step; a pair that is created by the step starts from 0.
StoredSeqNum(entry) ==
    LET key == <<entry.sourceSSRC, entry.remoteSSRC>>
    IN  IF key \in DOMAIN rcv.receivedReportBlockMap
        THEN rcv.receivedReportBlockMap[key].remoteReceiveBlock.extendedHighSeqNum
        ELSE 0

\* The step accepts a report block whose extended_high_seq_num is strictly
\* greater than the value stored for its pair when the block is handled: the
\* value an earlier report block of the same Report has left there, else the
\* value stored before the step.
SeqNumAdvances ==
    /\ ev'.thread = "net"
    /\ ev'.op = "Parse"
    /\ LET entries == net'.pi.report_blocks
           added == (Len(net.pi.report_blocks) + 1)..Len(entries)
           SamePair(i, j) == /\ entries[i].sourceSSRC = entries[j].sourceSSRC
                             /\ entries[i].remoteSSRC = entries[j].remoteSSRC
           Earlier(i) == {j \in added : j < i /\ SamePair(i, j)}
           Before(i) ==
               IF Earlier(i) = {} THEN StoredSeqNum(entries[i])
               ELSE entries[CHOOSE j \in Earlier(i) :
                                \A k \in Earlier(i) : k <= j].extendedHighSeqNum
       IN  \E i \in added : entries[i].extendedHighSeqNum > Before(i)

C38_AssertionsHold ==
    net.pc = "callbacks" => DispatcherAssertions

\* the report blocks of blk that pass the registered-SSRC filter
AcceptedReportBlocks(blk) ==
    Cardinality({i \in DOMAIN blk.rbs :
                    blk.rbs[i].source_ssrc \in rcv.registered_ssrcs})

\* the OnReceivedRtcpReportBlocks calls among cbs
ReportBlocksForwarded(cbs) ==
    {i \in DOMAIN cbs : cbs[i].name = "OnReceivedRtcpReportBlocks"}

\* C39: a Sender or Receiver Report appends to PacketInformation.report_blocks
\* exactly one entry for each of its report blocks that passes the
\* registered-SSRC filter, whether or not a round-trip time was computed, and
\* nothing else touches the list until the datagram is done; the dispatcher
\* forwards the whole list in its one OnReceivedRtcpReportBlocks call, so the
\* number of entries forwarded is the number of accepted report blocks.
C39_OneEntryPerReportBlock ==
    [][/\ (ev'.op = "Parse" /\ ev'.blk.type \in {"SR", "RR"} /\ ev'.blk.ok) =>
            Len(net'.pi.report_blocks)
                = Len(net.pi.report_blocks) + AcceptedReportBlocks(ev'.blk)
       /\ ~(ev'.op = "Parse" /\ ev'.blk.type \in {"SR", "RR"} /\ ev'.blk.ok) =>
            net'.pi.report_blocks \in {net.pi.report_blocks, <<>>}
       /\ ~(net.pc = "callbacks" /\ ev'.thread = "net") =>
            ReportBlocksForwarded(ev'.cbs) = {}
       /\ (net.pc = "callbacks" /\ ev'.thread = "net") =>
            /\ Cardinality(ReportBlocksForwarded(ev'.cbs)) <= 1
            /\ net.pi.report_blocks # <<>> => ReportBlocksForwarded(ev'.cbs) # {}
            /\ \A i \in ReportBlocksForwarded(ev'.cbs) :
                   ev'.cbs[i].arg = net.pi.report_blocks
      ]_vars

\* A receive-only endpoint forwarded two entries, one of a report block with
\* last_sr = 0 and one of a report block with a last_sr, neither of which
\* yielded a round-trip time.
C39_Witness ==
    /\ cfg.receiver_only
    /\ \E i \in ReportBlocksForwarded(ev.cbs) :
           /\ Len(ev.cbs[i].arg) = 2
           /\ ev.cbs[i].arg[1].lastSR = 0
           /\ ev.cbs[i].arg[2].lastSR # 0

\* C40: when RegisterRtcpStatisticsCallback returns on a thread other than
\* the ingestion thread, no CNameChanged or StatisticsUpdated call is in
\* progress on any callback object; and every such call that is in progress
\* at any time runs on the object registered at that time, so after the
\* replacement by c2 none runs on c1.
C40_CallbackReplaced ==
    [][/\ (ev'.op = "RegisterRtcpStatisticsCallback" /\ ev'.thread # "net") =>
            /\ stats_callback' = ev'.arg
            /\ net'.callee = 0
       /\ net'.callee # 0 => net'.callee = stats_callback'
       /\ \A i \in DOMAIN ev'.cbs :
              ev'.cbs[i].name \in {"CNameChanged", "StatisticsUpdated"} =>
                  /\ net'.callee = stats_callback
                  /\ "feedback" \in ev'.cbs[i].held
      ]_vars

\* StatisticsUpdated runs on callback 2, which replaced callback 1 after
\* CNameChanged was called on callback 1 for the same datagram.
C40_Witness ==
    /\ net.pc = "stats_cb"
    /\ net.callee = 2
    /\ net.called = {1, 2}
    /\ ev.thread = "net"
    /\ ev.cbs # <<>>

====
